---- MODULE Spec2Model ----
(***************************************************************************)
(* A model of the in-process coordination layer of Skills-MCP-WHM-Pro:     *)
(* the lock manager (lock-manager.js) and the transaction log              *)
(* (transaction-log.js).  Times are milliseconds, as Date.now() gives      *)
(* them.                                                                   *)
(***************************************************************************)
EXTENDS Integers, Sequences, FiniteSets, TLC

(***************************************************************************)
(* Bounds of the model.                                                    *)
(***************************************************************************)
\* The clock visits the instants 0..MaxTick and 600000..600000+MaxTick.
MaxTick == 1
\* How many lock ids generateLockId hands out in one run.
MaxLockIds == 2

\* How many transactions beginTransaction records in one run.
MaxTxns == 1
\* How many times the caller writes to an object it holds in one run.
MaxMutations == 1
MaxOps == 1
MaxObservers == 2
\* The longest domain list calculateNsec3Timeout is called with.
MaxDomains == 19
\* The attempt numbers getRetryBackoff is called with: 0..MaxAttempt.
MaxAttempt == 5

(***************************************************************************)
(* Program constants of lock-manager.js.                                   *)
(***************************************************************************)
DEFAULT_LOCK_TIMEOUT == 30000
MAX_LOCK_TIMEOUT == 600000
MS_PER_SECOND == 1000

(***************************************************************************)
(* JavaScript numbers as far as the lock manager needs them: an integer or *)
(* NaN.  Every comparison with NaN is false; arithmetic on NaN gives NaN.  *)
(***************************************************************************)
Num(v) == [nan |-> FALSE, v |-> v]
NaN == [nan |-> TRUE, v |-> 0]
NumLt(a, b) == ~a.nan /\ ~b.nan /\ a.v < b.v
NumLe(a, b) == ~a.nan /\ ~b.nan /\ a.v <= b.v
NumGe(a, b) == ~a.nan /\ ~b.nan /\ a.v >= b.v
NumAdd(a, b) == IF a.nan \/ b.nan THEN NaN ELSE Num(a.v + b.v)
NumSub(a, b) == IF a.nan \/ b.nan THEN NaN ELSE Num(a.v - b.v)
\* Math.min(a, b)
MathMin(a, b) == IF a.nan \/ b.nan THEN NaN ELSE IF a.v <= b.v THEN a ELSE b
\* Math.max(a, b)
MathMax(a, b) == IF a.nan \/ b.nan THEN NaN ELSE IF a.v >= b.v THEN a ELSE b
\* Math.ceil(a / d), d a positive integer
MathCeilDiv(a, d) == IF a.nan THEN NaN ELSE Num(-((-a.v) \div d))

(***************************************************************************)
(* Strings are sequences of characters; String.prototype.trim drops the    *)
(* white space at both ends.                                               *)
(***************************************************************************)
RECURSIVE TrimStart(_)
TrimStart(s) == IF s # <<>> /\ Head(s) = " " THEN TrimStart(Tail(s)) ELSE s
RECURSIVE TrimEnd(_)
TrimEnd(s) ==
  IF s # <<>> /\ s[Len(s)] = " " THEN TrimEnd(SubSeq(s, 1, Len(s) - 1)) ELSE s
Trim(s) == TrimEnd(TrimStart(s))

\* An argument that is a string, and one that is not (null, a number, ...).
Str(s) == [isString |-> TRUE, chars |-> s]
NotAString == [isString |-> FALSE, chars |-> <<>>]
\* !x || typeof x !== 'string'
InvalidString(x) == ~x.isString \/ x.chars = <<>>

\* The resource arguments callers pass.
ResourceArgs ==
  {NotAString, Str(<<>>), Str(<<" ">>), Str(<<"a">>), Str(<<" ", "a", " ">>)}

\* The timeout arguments callers pass: omitted, not a number, NaN, and numbers.
TimeoutOmitted == [kind |-> "omitted", n |-> Num(0)]
TimeoutNotNumber == [kind |-> "other", n |-> Num(0)]
TimeoutNum(n) == [kind |-> "number", n |-> n]
TimeoutArgs ==
  {TimeoutOmitted, TimeoutNotNumber, TimeoutNum(NaN), TimeoutNum(Num(0)),
   TimeoutNum(Num(1)), TimeoutNum(Num(700000))}

\* The instants the clock visits.
Instants == (0..MaxTick) \cup {MAX_LOCK_TIMEOUT + i : i \in 0..MaxTick}
LastInstant == MAX_LOCK_TIMEOUT + MaxTick

\* The callers that follow the acquire / work / release pattern, and the
\* arguments they pass.
Callers == {"c1", "c2"}
PatternResourceArgs == {Str(<<"a">>), Str(<<" ", "a", " ">>)}
PatternTimeoutArgs == {TimeoutOmitted, TimeoutNum(Num(1)), TimeoutNum(NaN)}

VARIABLES
  locks,       \* the Map `locks`: resourceId -> {lockId, timestamp, timeout}
  now,         \* Date.now()
  nextLockId,  \* the ids generateLockId has handed out so far, plus one
  lockRet,     \* the last lock-manager call and what it returned
  pc,          \* each pattern-following caller: "idle" or "work"
  lease,       \* the lock each working caller was granted
  everOverran, \* some caller was still working when its lock's timeout elapsed
  heap,        \* the JavaScript objects: a sequence, an object's index its identity
  transactions,\* the Map `transactions`: transactionId -> record
  nextTxn,     \* the ids generateTransactionId has handed out so far, plus one
  txRet,       \* the last transaction-log call and what it returned or threw
  held,        \* per transaction: what the caller was handed, and P at begin
  nMutations,  \* how many writes the caller has made
  operations,  \* the Map `operations`: operationId -> record
  progressCallbacks, \* the Map `progressCallbacks`: operationId -> list of observers
  nextOp,      \* the ids generateOperationId has handed out so far, plus one
  opRet,       \* the last tracker call, what it returned and whom it notified
  targets,     \* the domain list a caller of calculateNsec3Timeout is building
  finalTimeout,\* what the last calculateNsec3Timeout call returned, 0 before it
  whmError,    \* the raw error a caller of the classifier holds
  mapped,      \* what the last mapWhmError call returned, or that it threw
  retryRet,    \* the last isRecoverable or getRetryBackoff call and its result
  apiCall      \* one handleApiCall activation: where it is and what it has done

lockVars == <<locks, now, nextLockId, lockRet>>
callerVars == <<pc, lease, everOverran>>
txVars == <<heap, transactions, nextTxn, txRet, held, nMutations>>
opVars == <<operations, progressCallbacks, nextOp, opRet>>
nsecVars == <<targets, finalTimeout>>
mapperVars == <<whmError, mapped, retryRet, apiCall>>
vars ==
  <<locks, now, nextLockId, lockRet, pc, lease, everOverran, heap,
    transactions, nextTxn, txRet, held, nMutations, operations,
    progressCallbacks, nextOp, opRet, targets, finalTimeout, whmError,
    mapped, retryRet, apiCall>>

NoLease ==
  [key |-> <<>>, lockId |-> 0, timestamp |-> 0, timeout |-> Num(0),
   resource |-> NotAString]
NoLockRet ==
  [op |-> "none", key |-> <<>>, ok |-> FALSE, lockId |-> 0, error |-> "none",
   secs |-> Num(0), removed |-> {}]

\* Map.prototype.delete and Map.prototype.set
MapDelete(m, k) == [x \in DOMAIN m \ {k} |-> m[x]]
MapSet(m, k, v) == [x \in DOMAIN m \cup {k} |-> IF x = k THEN v ELSE m[x]]

(***************************************************************************)
(* acquireLock                                                             *)
(***************************************************************************)
\* The default parameter value: timeout = DEFAULT_LOCK_TIMEOUT.
TimeoutValue(t) == IF t.kind = "omitted" THEN Num(DEFAULT_LOCK_TIMEOUT) ELSE t.n
\* typeof timeout !== 'number' || timeout <= 0
InvalidTimeout(t) == t.kind = "other" \/ NumLe(TimeoutValue(t), Num(0))
\* const safeTimeout = Math.min(timeout, 600000)
SafeTimeout(t) == MathMin(TimeoutValue(t), Num(MAX_LOCK_TIMEOUT))

\* A mutant of LockExpired: a lock is still live at elapsed = timeout.
LockExpiredStrict(l, t) == NumLt(l.timeout, Num(t - l.timestamp))
\* A mutant of LockExpired: the operands of the comparison swapped.
LockExpiredSwapped(l, t) == NumGe(l.timeout, Num(t - l.timestamp))
\* elapsedTime >= existingLock.timeout
LockExpired(l, t) == NumGe(Num(t - l.timestamp), l.timeout)

\* A mutant of BusySeconds: the remaining time rounded down.
BusySecondsFloor(l, t) ==
  LET r == NumSub(l.timeout, Num(t - l.timestamp))
  IN  IF r.nan THEN NaN ELSE Num(r.v \div MS_PER_SECOND)
\* Math.ceil((existingLock.timeout - elapsedTime) / 1000)
BusySeconds(l, t) ==
  MathCeilDiv(NumSub(l.timeout, Num(t - l.timestamp)), MS_PER_SECOND)

\* A mutant of NewLock: the stale entry's timestamp is kept.
NewLockKeepsTimestamp(lk, key, id, t, timeout) ==
  [lockId |-> id,
   timestamp |-> IF key \in DOMAIN lk THEN lk[key].timestamp ELSE t,
   timeout |-> timeout]
\* { lockId, timestamp: now, timeout: safeTimeout }
NewLock(lk, key, id, t, timeout) ==
  [lockId |-> id, timestamp |-> t, timeout |-> timeout]

\* acquireLock(resource, timeout) at instant t, generateLockId giving id:
\* the table afterwards and the value returned.
AcquireLockOutcome(lk, resource, timeout, t, id) ==
  LET key == Trim(resource.chars)
      fail(k, e, s) ==
        [locks |-> lk,
         ret |-> [op |-> "acquireLock", key |-> k, ok |-> FALSE, lockId |-> 0,
                  error |-> e, secs |-> s, removed |-> {}]]
  IN  IF InvalidString(resource) THEN fail(<<>>, "invalid_resource", Num(0))
      ELSE IF InvalidTimeout(timeout) THEN fail(key, "invalid_timeout", Num(0))
      ELSE IF key \in DOMAIN lk /\ ~LockExpired(lk[key], t)
        THEN fail(key, "busy", BusySeconds(lk[key], t))
      ELSE [locks |-> MapSet(lk, key, NewLock(lk, key, id, t, SafeTimeout(timeout))),
            ret |-> [op |-> "acquireLock", key |-> key, ok |-> TRUE,
                     lockId |-> id, error |-> "none", secs |-> Num(0),
                     removed |-> IF key \in DOMAIN lk THEN {key} ELSE {}]]

(***************************************************************************)
(* releaseLock                                                             *)
(***************************************************************************)
\* A mutant of ReleaseLockOutcome: the locks.has check is missing.
ReleaseLockUnchecked(lk, resource) ==
  LET key == Trim(resource.chars)
  IN  [locks |-> MapDelete(lk, key),
       ret |-> [op |-> "releaseLock", key |-> key, ok |-> TRUE, lockId |-> 0,
                error |-> "none", secs |-> Num(0), removed |-> {}]]
\* releaseLock(resource): the table afterwards and the value returned.
ReleaseLockOutcome(lk, resource) ==
  LET key == Trim(resource.chars)
      fail(k, e) ==
        [locks |-> lk,
         ret |-> [op |-> "releaseLock", key |-> k, ok |-> FALSE, lockId |-> 0,
                  error |-> e, secs |-> Num(0), removed |-> {}]]
  IN  IF InvalidString(resource) THEN fail(<<>>, "invalid_resource")
      ELSE IF key \notin DOMAIN lk THEN fail(key, "not_found")
      ELSE [locks |-> MapDelete(lk, key),
            ret |-> [op |-> "releaseLock", key |-> key, ok |-> TRUE,
                     lockId |-> 0, error |-> "none", secs |-> Num(0),
                     removed |-> {key}]]

(***************************************************************************)
(* isLocked                                                                *)
(***************************************************************************)
\* remainingTime = lockData.timeout - elapsedTime; remainingTime <= 0
RemainingTime(l, t) == NumSub(l.timeout, Num(t - l.timestamp))
\* isLocked(resource) at instant t: ok is the `locked` flag returned.
IsLockedOutcome(lk, resource, t) ==
  LET key == Trim(resource.chars)
      no(k, m, rem) ==
        [locks |-> m,
         ret |-> [op |-> "isLocked", key |-> k, ok |-> FALSE, lockId |-> 0,
                  error |-> "none", secs |-> Num(0), removed |-> rem]]
  IN  IF InvalidString(resource) THEN no(<<>>, lk, {})
      ELSE IF key \notin DOMAIN lk THEN no(key, lk, {})
      ELSE IF NumLe(RemainingTime(lk[key], t), Num(0))
        THEN no(key, MapDelete(lk, key), {key})
      ELSE [locks |-> lk,
            ret |-> [op |-> "isLocked", key |-> key, ok |-> TRUE,
                     lockId |-> lk[key].lockId, error |-> "none",
                     secs |-> RemainingTime(lk[key], t), removed |-> {}]]

(***************************************************************************)
(* The periodic sweep of startStaleCheckInterval                           *)
(***************************************************************************)
\* A mutant of StaleLocks: an entry is stale from the instant its timeout
\* ends.
StaleLocksEager(lk, t) ==
  {k \in DOMAIN lk : NumLe(NumAdd(Num(lk[k].timestamp), lk[k].timeout), Num(t))}
\* A mutant of StaleLocks: the comparison inverted.
StaleLocksInverted(lk, t) ==
  {k \in DOMAIN lk : NumLt(Num(t), NumAdd(Num(lk[k].timestamp), lk[k].timeout))}
\* lockData.timestamp + lockData.timeout < now
StaleLocks(lk, t) ==
  {k \in DOMAIN lk : NumLt(NumAdd(Num(lk[k].timestamp), lk[k].timeout), Num(t))}

\* clearAllLocks(): the table afterwards; the value returned is the number
\* of the entries in `removed`.
ClearAllLocksOutcome(lk) ==
  [locks |-> << >>,
   ret |-> [NoLockRet EXCEPT !.op = "clearAllLocks", !.removed = DOMAIN lk]]

\* A mutant of GetLockStats: the entries whose timeout has elapsed are left
\* out.
GetLockStatsLive(lk, t) ==
  LET live == {k \in DOMAIN lk : ~NumLe(NumSub(lk[k].timeout, Num(t - lk[k].timestamp)), Num(0))}
  IN  [totalLocks |-> Cardinality(live),
       resources |->
         {[resource |-> k, elapsedTime |-> t - lk[k].timestamp,
           remainingTime |-> MathMax(Num(0), NumSub(lk[k].timeout, Num(t - lk[k].timestamp))),
           timeout |-> lk[k].timeout] : k \in live}]
\* getLockStats(): totalLocks and the entry listed for each resource.
GetLockStats(lk, t) ==
  [totalLocks |-> Cardinality(DOMAIN lk),
   resources |->
     {[resource |-> k, elapsedTime |-> t - lk[k].timestamp,
       remainingTime |-> MathMax(Num(0), RemainingTime(lk[k], t)),
       timeout |-> lk[k].timeout] : k \in DOMAIN lk}]

(***************************************************************************)
(* transaction-log.js.  Payloads are JavaScript objects, so the model      *)
(* keeps a heap: an object is an index into `heap`, and its properties     *)
(* hold primitives or references to objects.                               *)
(***************************************************************************)
DEFAULT_MAX_AGE_HOURS == 24
MS_PER_HOUR == 60 * 60 * 1000

Fields == {"type", "nested"}
Prim(p) == [t |-> "prim", p |-> p, r |-> 0]
Ref(r) == [t |-> "ref", p |-> "", r |-> r]
Absent == [t |-> "absent", p |-> "", r |-> 0]
\* An object with no property.
EmptyObject == [f \in Fields |-> Absent]

\* The instants the clock visits while the transaction log is in use.
TxInstants ==
  (1..(1 + MaxTick))
    \cup {DEFAULT_MAX_AGE_HOURS * MS_PER_HOUR + 1 + i : i \in 1..MaxTick}

\* A path into an object: the property names from the root.
FieldIndex(f) == IF f = "type" THEN 1 ELSE 2
RECURSIVE PathCode(_)
PathCode(path) ==
  IF path = <<>> THEN 0
  ELSE PathCode(SubSeq(path, 1, Len(path) - 1)) * (Cardinality(Fields) + 1)
         + FieldIndex(path[Len(path)])

\* JSON.stringify(v), as the set of <<path, token>> of the text it writes:
\* "{" where an object starts, a primitive's text elsewhere.  A property
\* holding undefined is left out, NaN is written as null, a BigInt and an
\* object met again below itself make stringify throw (token "THROW").
RECURSIVE JsonStringify(_, _, _, _)
JsonStringify(h, v, path, above) ==
  IF v.t = "absent" THEN {}
  ELSE IF v.t = "prim" THEN
    IF v.p = "undefined" THEN {}
    ELSE IF v.p = "NaN" THEN {<<path, "null">>}
    ELSE IF v.p = "bigint" THEN {<<path, "THROW">>}
    ELSE {<<path, v.p>>}
  ELSE IF v.r \in above THEN {<<path, "THROW">>}
  ELSE {<<path, "{">>}
         \cup UNION {JsonStringify(h, h[v.r][f], Append(path, f), above \cup {v.r})
                      : f \in Fields}
StringifyThrows(text) == \E e \in text : e[2] = "THROW"

\* JSON.parse(text): new objects, appended to the heap; the root is the
\* first of them.
JsonParse(h, text) ==
  LET objPaths == {e[1] : e \in {x \in text : x[2] = "{"}}
      rank(q) == Cardinality({o \in objPaths : PathCode(o) < PathCode(q)})
      id(q) == Len(h) + 1 + rank(q)
      tokenAt(q) == (CHOOSE e \in text : e[1] = q)[2]
      value(q) ==
        IF \A e \in text : e[1] # q THEN Absent
        ELSE IF tokenAt(q) = "{" THEN Ref(id(q))
        ELSE Prim(tokenAt(q))
      object(q) == [f \in Fields |-> value(Append(q, f))]
      pathOf(i) == CHOOSE q \in objPaths : id(q) = i
  IN  [heap |-> h \o [i \in 1..Cardinality(objPaths) |-> object(pathOf(Len(h) + i))],
       root |-> Len(h) + 1]

\* A mutant of DeepCopy: the object itself instead of a copy.
DeepCopyShares(h, r) == [heap |-> h, root |-> r]
\* JSON.parse(JSON.stringify(object r)), for an r that stringify accepts.
DeepCopy(h, r) == JsonParse(h, JsonStringify(h, Ref(r), <<>>, {}))

\* x.type || 'unknown'
OperationType(h, r) ==
  LET v == h[r]["type"]
  IN  IF v.t = "ref" THEN "[object]"
      ELSE IF v.t = "absent" \/ v.p \in {"undefined", "NaN", "null"} THEN "unknown"
      ELSE v.p

\* The transaction ids: txn_ and the hex digits, here one digit.
TxnId(n) == <<"txn_", IF n = 1 THEN "1" ELSE IF n = 2 THEN "2" ELSE IF n = 3 THEN "3" ELSE "4">>
\* The transactionId arguments callers pass.
TxnIdArgs ==
  {NotAString, Str(<<>>), Str(<<"x">>)}
    \cup {Str(TxnId(n)) : n \in 1..MaxTxns}
    \cup {Str(<<" ">> \o TxnId(1) \o <<" ">>)}
\* The operationData arguments callers pass: an object, null, a number.
PayloadObject(r) == [kind |-> "object", r |-> r]
PayloadNull == [kind |-> "null", r |-> 0]
PayloadNumber == [kind |-> "number", r |-> 0]
\* The caller's own objects, as they are when the module has been loaded:
\*   1: { type: 1, nested: <2> }    2: { type: 1 }
\*   3: { type: NaN }               4: { type: 1, nested: <4> }
CallerHeap ==
  <<[type |-> Prim("1"), nested |-> Ref(2)],
    [type |-> Prim("1"), nested |-> Absent],
    [type |-> Prim("NaN"), nested |-> Absent],
    [type |-> Prim("1"), nested |-> Ref(4)]>>
PayloadRoots == {1, 3, 4}
PayloadArgs == {PayloadObject(r) : r \in PayloadRoots} \cup {PayloadNull, PayloadNumber}
\* The maxAgeHours arguments callers pass: omitted, or a number of hours.
MaxAgeOmitted == [kind |-> "omitted", hours |-> 0]
MaxAgeHours(n) == [kind |-> "number", hours |-> n]
MaxAgeArgs == {MaxAgeOmitted, MaxAgeHours(0)}

\* null, for completedAt and for a status returned.
Null == <<>>
NoTxRet ==
  [op |-> "none", threw |-> FALSE, error |-> "none", errorState |-> "",
   id |-> <<>>, status |-> "null", backup |-> 0, data |-> <<>>, removed |-> 0]
TxFail(op, id, err, st) ==
  [NoTxRet EXCEPT !.op = op, !.id = id, !.error = err, !.errorState = st]
TxThrow(op, err) == [NoTxRet EXCEPT !.op = op, !.threw = TRUE, !.error = err]

\* A mutant of BeginTransactionOutcome: the record is entered before the
\* backup is made.
BeginTransactionRecordsFirst(h, tx, arg, t, n) ==
  IF arg.kind # "object" THEN [heap |-> h, transactions |-> tx, ret |-> TxThrow("begin", "invalid_data")]
  ELSE LET root == arg.r
           text == JsonStringify(h, Ref(root), <<>>, {})
           rec == [operationData |-> root, backup |-> 0, status |-> "pending",
                   timestamp |-> t, completedAt |-> Null]
       IN  IF StringifyThrows(text)
             THEN [heap |-> h, transactions |-> MapSet(tx, TxnId(n), rec),
                   ret |-> TxThrow("begin", "backup_failed")]
             ELSE LET b == DeepCopy(h, root)
                      d == DeepCopy(b.heap, root)
                  IN  [heap |-> d.heap,
                       transactions |->
                         MapSet(tx, TxnId(n),
                                [rec EXCEPT !.operationData = d.root, !.backup = b.root]),
                       ret |-> [NoTxRet EXCEPT !.op = "begin", !.id = TxnId(n),
                                               !.status = "pending", !.backup = b.root]]
\* beginTransaction(operationData) at instant t, generateTransactionId giving
\* TxnId(n): the heap and the table afterwards, and what is returned or thrown.
BeginTransactionOutcome(h, tx, arg, t, n) ==
  IF arg.kind # "object" THEN [heap |-> h, transactions |-> tx, ret |-> TxThrow("begin", "invalid_data")]
  ELSE LET root == arg.r
           text == JsonStringify(h, Ref(root), <<>>, {})
       IN  IF StringifyThrows(text)
             THEN [heap |-> h, transactions |-> tx, ret |-> TxThrow("begin", "backup_failed")]
             ELSE LET b == DeepCopy(h, root)
                      d == DeepCopy(b.heap, root)
                  IN  [heap |-> d.heap,
                       transactions |->
                         MapSet(tx, TxnId(n),
                                [operationData |-> d.root, backup |-> b.root,
                                 status |-> "pending", timestamp |-> t,
                                 completedAt |-> Null]),
                       ret |-> [NoTxRet EXCEPT !.op = "begin", !.id = TxnId(n),
                                               !.status = "pending", !.backup = b.root]]

\* A mutant of CommitTransactionOutcome: the status check is missing.
CommitTransactionUnchecked(tx, arg, t) ==
  LET id == Trim(arg.chars)
  IN  IF InvalidString(arg) THEN [transactions |-> tx, ret |-> TxFail("commit", <<>>, "invalid_id", "")]
      ELSE IF id \notin DOMAIN tx
        THEN [transactions |-> tx, ret |-> TxFail("commit", id, "not_found", "")]
      ELSE [transactions |->
              [tx EXCEPT ![id].status = "committed", ![id].completedAt = <<t>>],
            ret |-> [NoTxRet EXCEPT !.op = "commit", !.id = id, !.status = "committed"]]
\* commitTransaction(transactionId) at instant t.
CommitTransactionOutcome(tx, arg, t) ==
  LET id == Trim(arg.chars)
  IN  IF InvalidString(arg) THEN [transactions |-> tx, ret |-> TxFail("commit", <<>>, "invalid_id", "")]
      ELSE IF id \notin DOMAIN tx
        THEN [transactions |-> tx, ret |-> TxFail("commit", id, "not_found", "")]
      ELSE IF tx[id].status # "pending"
        THEN [transactions |-> tx,
              ret |-> TxFail("commit", id, "not_pending", tx[id].status)]
      ELSE [transactions |->
              [tx EXCEPT ![id].status = "committed", ![id].completedAt = <<t>>],
            ret |-> [NoTxRet EXCEPT !.op = "commit", !.id = id, !.status = "committed"]]

\* A mutant of RollbackTransactionOutcome: only a second rollback is refused.
RollbackTransactionAfterCommit(h, tx, arg, t) ==
  LET id == Trim(arg.chars)
      same(r) == [heap |-> h, transactions |-> tx, ret |-> r]
  IN  IF InvalidString(arg) THEN same(TxFail("rollback", <<>>, "invalid_id", ""))
      ELSE IF id \notin DOMAIN tx THEN same(TxFail("rollback", id, "not_found", ""))
      ELSE IF tx[id].status = "rolled_back"
        THEN same(TxFail("rollback", id, "not_pending", tx[id].status))
      ELSE IF StringifyThrows(JsonStringify(h, Ref(tx[id].backup), <<>>, {}))
        THEN same(TxThrow("rollback", "TypeError"))
      ELSE LET b == DeepCopy(h, tx[id].backup)
           IN  [heap |-> b.heap,
                transactions |->
                  [tx EXCEPT ![id].status = "rolled_back", ![id].completedAt = <<t>>],
                ret |-> [NoTxRet EXCEPT !.op = "rollback", !.id = id,
                                        !.status = "rolled_back", !.backup = b.root]]
\* rollbackTransaction(transactionId) at instant t.  JSON.stringify of the
\* stored backup is not in a try block: if it throws, the call throws.
RollbackTransactionOutcome(h, tx, arg, t) ==
  LET id == Trim(arg.chars)
      same(r) == [heap |-> h, transactions |-> tx, ret |-> r]
  IN  IF InvalidString(arg) THEN same(TxFail("rollback", <<>>, "invalid_id", ""))
      ELSE IF id \notin DOMAIN tx THEN same(TxFail("rollback", id, "not_found", ""))
      ELSE IF tx[id].status # "pending"
        THEN same(TxFail("rollback", id, "not_pending", tx[id].status))
      ELSE IF StringifyThrows(JsonStringify(h, Ref(tx[id].backup), <<>>, {}))
        THEN same(TxThrow("rollback", "TypeError"))
      ELSE LET b == DeepCopy(h, tx[id].backup)
           IN  [heap |-> b.heap,
                transactions |->
                  [tx EXCEPT ![id].status = "rolled_back", ![id].completedAt = <<t>>],
                ret |-> [NoTxRet EXCEPT !.op = "rollback", !.id = id,
                                        !.status = "rolled_back", !.backup = b.root]]

\* txn.completedAt ? txn.completedAt - txn.timestamp : null
Duration(txn) ==
  IF txn.completedAt # Null /\ txn.completedAt[1] # 0
    THEN <<txn.completedAt[1] - txn.timestamp>>
    ELSE Null
\* getTransactionStatus(transactionId)
GetTransactionStatusOutcome(h, tx, arg) ==
  LET id == Trim(arg.chars)
  IN  IF InvalidString(arg) THEN TxFail("status", <<>>, "invalid_id", "")
      ELSE IF id \notin DOMAIN tx THEN TxFail("status", id, "not_found", "")
      ELSE [NoTxRet EXCEPT
              !.op = "status", !.id = id, !.status = tx[id].status,
              !.data = <<[transactionId |-> id, status |-> tx[id].status,
                          operationType |-> OperationType(h, tx[id].operationData),
                          startedAt |-> tx[id].timestamp,
                          completedAt |-> tx[id].completedAt,
                          duration |-> Duration(tx[id]),
                          hasBackup |-> tx[id].backup # 0]>>]

\* getActiveTransactions() at instant t
GetActiveTransactions(h, tx, t) ==
  {[transactionId |-> id,
    operationType |-> OperationType(h, tx[id].operationData),
    startedAt |-> tx[id].timestamp,
    duration |-> t - tx[id].timestamp] : id \in {i \in DOMAIN tx : tx[i].status = "pending"}}

\* getTransactionStats()
GetTransactionStats(tx) ==
  [total |-> Cardinality(DOMAIN tx),
   pending |-> Cardinality({i \in DOMAIN tx : tx[i].status = "pending"}),
   committed |-> Cardinality({i \in DOMAIN tx : tx[i].status = "committed"}),
   rolledBack |-> Cardinality({i \in DOMAIN tx : tx[i].status = "rolled_back"})]

\* cleanupOldTransactions(maxAgeHours) at instant t: the ids it removes.
MaxAgeMs(a) ==
  (IF a.kind = "omitted" THEN DEFAULT_MAX_AGE_HOURS ELSE a.hours) * MS_PER_HOUR
\* A mutant of TransactionsToRemove: the age of a pending transaction is
\* taken from its start.
TransactionsToRemoveByAge(tx, a, t) ==
  {id \in DOMAIN tx :
     t - (IF tx[id].status = "pending" THEN tx[id].timestamp
                                       ELSE tx[id].completedAt[1]) > MaxAgeMs(a)}
TransactionsToRemove(tx, a, t) ==
  {id \in DOMAIN tx :
     tx[id].status # "pending" /\ t - tx[id].completedAt[1] > MaxAgeMs(a)}

(***************************************************************************)
(* The error classifier of error-mapper.js.  Messages are sequences of      *)
(* characters; the values of the fields of a raw error are JavaScript       *)
(* values of several types.                                                 *)
(***************************************************************************)
\* Object.keys(ERROR_TYPES)
ERROR_TYPES ==
  {"EEXIST", "ENOENT", "EPERM", "EBUSY", "ETIMEDOUT",
   "ECONNREFUSED", "RATE_LIMITED", "QUOTA_EXCEEDED", "INVALID_INPUT", "VALIDATION_ERROR",
   "UNAUTHORIZED", "FORBIDDEN", "INTERNAL_ERROR", "SERVICE_UNAVAILABLE", "UNKNOWN"}
\* Property names every object inherits from Object.prototype: ERROR_TYPES[k]
\* and RETRY_CONFIG[k] give a function for them, which is truthy.
InheritedKeys == {"toString", "constructor"}

\* A policy value: a boolean, a number, or undefined.
JsBool(b) == [t |-> "boolean", b |-> b, n |-> 0]
JsNum(n) == [t |-> "number", b |-> FALSE, n |-> n]
JsUndefined == [t |-> "undefined", b |-> FALSE, n |-> 0]
\* An entry of RETRY_CONFIG.
Policy(shouldRetry, maxRetries, backoffMs, description) ==
  [shouldRetry |-> shouldRetry, maxRetries |-> maxRetries,
   backoffMs |-> backoffMs, description |-> description]
\* RETRY_CONFIG[k] for a kind k, and for an inherited key the function found
\* there, whose properties of these names are undefined.
RETRY_CONFIG(k) ==
  IF k = "EEXIST" THEN
    Policy(JsBool(FALSE), JsNum(0), JsUndefined,
           "Arquivo ou recurso ja existe")
  ELSE IF k = "ENOENT" THEN
    Policy(JsBool(FALSE), JsNum(0), JsUndefined,
           "Arquivo ou recurso nao encontrado")
  ELSE IF k = "EPERM" THEN
    Policy(JsBool(FALSE), JsNum(0), JsUndefined,
           "Operacao nao permitida (permissao negada)")
  ELSE IF k = "EBUSY" THEN
    Policy(JsBool(TRUE), JsNum(3), JsNum(1000),
           "Recurso ocupado, tente novamente")
  ELSE IF k = "ETIMEDOUT" THEN
    Policy(JsBool(TRUE), JsNum(2), JsNum(2000),
           "Operacao expirou, tente novamente")
  ELSE IF k = "ECONNREFUSED" THEN
    Policy(JsBool(TRUE), JsNum(3), JsNum(1000),
           "Conexao recusada, servico pode estar indisponivel")
  ELSE IF k = "RATE_LIMITED" THEN
    Policy(JsBool(TRUE), JsNum(5), JsNum(5000),
           "Limite de taxa excedido, aguarde antes de tentar novamente")
  ELSE IF k = "QUOTA_EXCEEDED" THEN
    Policy(JsBool(FALSE), JsNum(0), JsUndefined,
           "Cota de recursos excedida")
  ELSE IF k = "INVALID_INPUT" THEN
    Policy(JsBool(FALSE), JsNum(0), JsUndefined,
           "Entrada invalida, verifique parametros")
  ELSE IF k = "VALIDATION_ERROR" THEN
    Policy(JsBool(FALSE), JsNum(0), JsUndefined,
           "Erro de validacao")
  ELSE IF k = "UNAUTHORIZED" THEN
    Policy(JsBool(FALSE), JsNum(0), JsUndefined,
           "Autenticacao falhou")
  ELSE IF k = "FORBIDDEN" THEN
    Policy(JsBool(FALSE), JsNum(0), JsUndefined,
           "Acesso proibido")
  ELSE IF k = "INTERNAL_ERROR" THEN
    Policy(JsBool(TRUE), JsNum(2), JsNum(2000),
           "Erro interno do servidor, tente novamente")
  ELSE IF k = "SERVICE_UNAVAILABLE" THEN
    Policy(JsBool(TRUE), JsNum(3), JsNum(3000),
           "Servico temporariamente indisponivel")
  ELSE IF k = "UNKNOWN" THEN
    Policy(JsBool(TRUE), JsNum(1), JsNum(1000),
           "Erro desconhecido")
  ELSE Policy(JsUndefined, JsUndefined, JsUndefined, "undefined")

\* A message: a string, a number (which has no toLowerCase), or undefined.
Msg(chars) == [t |-> "string", chars |-> chars]
MsgNumber == [t |-> "number", chars |-> <<"4", "2">>]
MsgUndefined == [t |-> "undefined", chars |-> <<>>]
\* what JSON.stringify throws on instead of returning a string: a cycle, a BigInt
MsgThrows == [t |-> "throws", chars |-> <<>>]
TruthyMsg(m) == (m.t = "string" /\ m.chars # <<>>) \/ m.t = "number"

\* A code: a string or a number, given by the property key it is used as,
\* or undefined.
Code(key) == [t |-> "string", key |-> key]
CodeNumber(key) == [t |-> "number", key |-> key]
CodeUndefined == [t |-> "undefined", key |-> ""]
TruthyCode(c) == (c.t = "string" /\ c.key # "") \/ (c.t = "number" /\ c.key # "0")
\* ERROR_TYPES[key] is truthy
KnownErrorType(key) == key \in ERROR_TYPES \/ key \in InheritedKeys

\* String.prototype.toLowerCase on the letters.
UpperLetters ==
  <<"A", "B", "C", "D", "E", "F", "G", "H", "I", "J", "K", "L", "M", "N", "O", "P", "Q", "R", "S", "T", "U", "V", "W", "X", "Y", "Z">>
LowerLetters ==
  <<"a", "b", "c", "d", "e", "f", "g", "h", "i", "j", "k", "l", "m", "n", "o", "p", "q", "r", "s", "t", "u", "v", "w", "x", "y", "z">>
LowerChar(c) ==
  IF \E i \in 1..Len(UpperLetters) : UpperLetters[i] = c
    THEN LowerLetters[CHOOSE i \in 1..Len(UpperLetters) : UpperLetters[i] = c]
  ELSE c
\* String.prototype.includes
Includes(s, p) ==
  \E i \in 0..(Len(s) - Len(p)) : SubSeq(s, i + 1, i + Len(p)) = p

\* Object.entries(ERROR_PATTERN_MAP), in the order of the literal.
ERROR_PATTERN_MAP ==
  << [pattern |-> <<"f", "i", "l", "e", " ", "e", "x", "i", "s", "t", "s">>,
      errorType |-> "EEXIST"],
     [pattern |-> <<"n", "o", " ", "s", "u", "c", "h", " ", "f", "i", "l", "e">>,
      errorType |-> "ENOENT"],
     [pattern |-> <<"n", "o", "t", " ", "f", "o", "u", "n", "d">>,
      errorType |-> "ENOENT"],
     [pattern |-> <<"p", "e", "r", "m", "i", "s", "s", "i", "o", "n", " ", "d", "e", "n", "i", "e", "d">>,
      errorType |-> "EPERM"],
     [pattern |-> <<"r", "e", "s", "o", "u", "r", "c", "e", " ", "b", "u", "s", "y">>,
      errorType |-> "EBUSY"],
     [pattern |-> <<"t", "i", "m", "e", "o", "u", "t">>,
      errorType |-> "ETIMEDOUT"],
     [pattern |-> <<"t", "i", "m", "e", "d", " ", "o", "u", "t">>,
      errorType |-> "ETIMEDOUT"],
     [pattern |-> <<"c", "o", "n", "n", "e", "c", "t", "i", "o", "n", " ", "r", "e", "f", "u", "s", "e", "d">>,
      errorType |-> "ECONNREFUSED"],
     [pattern |-> <<"r", "a", "t", "e", " ", "l", "i", "m", "i", "t">>,
      errorType |-> "RATE_LIMITED"],
     [pattern |-> <<"t", "o", "o", " ", "m", "a", "n", "y", " ", "r", "e", "q", "u", "e", "s", "t", "s">>,
      errorType |-> "RATE_LIMITED"],
     [pattern |-> <<"q", "u", "o", "t", "a">>,
      errorType |-> "QUOTA_EXCEEDED"],
     [pattern |-> <<"i", "n", "v", "a", "l", "i", "d">>,
      errorType |-> "INVALID_INPUT"],
     [pattern |-> <<"u", "n", "a", "u", "t", "h", "o", "r", "i", "z", "e", "d">>,
      errorType |-> "UNAUTHORIZED"],
     [pattern |-> <<"f", "o", "r", "b", "i", "d", "d", "e", "n">>,
      errorType |-> "FORBIDDEN"],
     [pattern |-> <<"i", "n", "t", "e", "r", "n", "a", "l", " ", "s", "e", "r", "v", "e", "r", " ", "e", "r", "r", "o", "r">>,
      errorType |-> "INTERNAL_ERROR"],
     [pattern |-> <<"s", "e", "r", "v", "i", "c", "e", " ", "u", "n", "a", "v", "a", "i", "l", "a", "b", "l", "e">>,
      errorType |-> "SERVICE_UNAVAILABLE"],
     [pattern |-> <<"b", "a", "d", " ", "r", "e", "q", "u", "e", "s", "t">>,
      errorType |-> "INVALID_INPUT"] >>

\* calculateSeverity(errorType)
CalculateSeverity(errorType) ==
  IF errorType \in {"EEXIST", "QUOTA_EXCEEDED"} THEN "medium"
  ELSE IF errorType \in {"EPERM", "FORBIDDEN", "UNAUTHORIZED"} THEN "high"
  ELSE IF errorType \in {"INTERNAL_ERROR", "SERVICE_UNAVAILABLE"} THEN "high"
  ELSE IF errorType \in {"ENOENT", "INVALID_INPUT", "VALIDATION_ERROR"} THEN "low"
  ELSE IF errorType \in {"EBUSY", "ETIMEDOUT", "ECONNREFUSED", "RATE_LIMITED"} THEN "medium"
  ELSE "medium"

\* No classification has been made; a classification that threw.
NotMapped ==
  [made |-> FALSE, threw |-> FALSE, type |-> "", message |-> "",
   originalMessage |-> MsgUndefined,
   retry |-> [shouldRetry |-> JsUndefined, maxRetries |-> JsUndefined,
              backoffMs |-> JsUndefined],
   severity |-> "", timestamp |-> 0]
MapThrows == [NotMapped EXCEPT !.threw = TRUE]

\* createMappedError(errorType, originalMessage) at instant t
CreateMappedError(errorType, originalMessage, t) ==
  LET type == IF ~KnownErrorType(errorType) THEN "UNKNOWN" ELSE errorType
      retryConfig == RETRY_CONFIG(type)
  IN  [made |-> TRUE, threw |-> FALSE, type |-> type,
       message |-> retryConfig.description,
       originalMessage |->
         IF TruthyMsg(originalMessage) THEN originalMessage ELSE Msg(<<>>),
       retry |-> [shouldRetry |-> retryConfig.shouldRetry,
                  maxRetries |-> retryConfig.maxRetries,
                  backoffMs |-> IF retryConfig.backoffMs.t = "number"
                                     /\ retryConfig.backoffMs.n # 0
                                  THEN retryConfig.backoffMs ELSE JsNum(0)],
       severity |-> CalculateSeverity(type), timestamp |-> t]

\* The raw errors: a falsy value, a string, an Error, another object, or
\* another truthy value (a number, true, a function).  json is what
\* JSON.stringify gives for an object.
Raw(shape, code, errno, message, msg, json) ==
  [shape |-> shape, code |-> code, errno |-> errno, message |-> message,
   msg |-> msg, json |-> json]
\* errorCode after the extraction
ErrorCode(raw) ==
  IF raw.shape = "error" THEN raw.code
  ELSE IF raw.shape = "object"
    THEN IF TruthyCode(raw.code) THEN raw.code ELSE raw.errno
  ELSE CodeUndefined
\* errorMessage after the extraction; MsgThrows when JSON.stringify throws
ErrorMessage(raw) ==
  IF raw.shape = "string" THEN raw.message
  ELSE IF raw.shape = "error"
    THEN IF TruthyMsg(raw.message) THEN raw.message ELSE Msg(<<>>)
  ELSE IF raw.shape = "object"
    THEN IF TruthyMsg(raw.message) THEN raw.message
         ELSE IF TruthyMsg(raw.msg) THEN raw.msg
         ELSE raw.json
  ELSE Msg(<<>>)
\* The entries of the table whose pattern normalizedMessage includes.
MatchingPatterns(chars) ==
  LET normalizedMessage == [i \in 1..Len(chars) |-> LowerChar(chars[i])]
  IN  {i \in 1..Len(ERROR_PATTERN_MAP) :
         Includes(normalizedMessage, ERROR_PATTERN_MAP[i].pattern)}
EmptyOrNull ==
  <<"E", "r", "r", "o", " ", "v", "a", "z", "i", "o", " ", "o", "u", " ", "n", "u", "l", "o">>
\* mapWhmError(whmError) at instant t
MapWhmError(raw, t) ==
  IF raw.shape = "falsy" THEN CreateMappedError("UNKNOWN", Msg(EmptyOrNull), t)
  ELSE LET errorCode == ErrorCode(raw)
           errorMessage == ErrorMessage(raw)
       IN  IF errorMessage.t = "throws" THEN MapThrows
           ELSE IF TruthyCode(errorCode) /\ KnownErrorType(errorCode.key)
             THEN CreateMappedError(errorCode.key, errorMessage, t)
           ELSE IF errorMessage.t # "string" THEN MapThrows
           ELSE LET found == MatchingPatterns(errorMessage.chars)
                IN  IF found = {} THEN CreateMappedError("UNKNOWN", errorMessage, t)
                    ELSE CreateMappedError(
                           ERROR_PATTERN_MAP[CHOOSE i \in found :
                                               \A j \in found : i <= j].errorType,
                           errorMessage, t)

\* A mutant of IsRecoverable: one retry does not count.
IsRecoverableMoreThanOnce(mappedError) ==
  /\ mappedError.made
  /\ mappedError.retry.shouldRetry = JsBool(TRUE)
  /\ mappedError.retry.maxRetries.t = "number"
  /\ mappedError.retry.maxRetries.n > 1
\* isRecoverable(mappedError): false for null and for what carries no retry
IsRecoverable(mappedError) ==
  /\ mappedError.made
  /\ mappedError.retry.shouldRetry = JsBool(TRUE)
  /\ mappedError.retry.maxRetries.t = "number"
  /\ mappedError.retry.maxRetries.n > 0

DEFAULT_BACKOFF_MS == 1000
MAX_DOUBLINGS == 3
\* mappedError.retry.backoffMs || 1000
BaseBackoff(mappedError) ==
  IF mappedError.retry.backoffMs.t = "number" /\ mappedError.retry.backoffMs.n # 0
    THEN mappedError.retry.backoffMs.n
  ELSE DEFAULT_BACKOFF_MS
\* A mutant of GrowthExponent: the doubling is not capped.
GrowthExponentUncapped(attemptNumber) == attemptNumber
\* Math.min(attemptNumber, 3)
GrowthExponent(attemptNumber) ==
  IF attemptNumber < MAX_DOUBLINGS THEN attemptNumber ELSE MAX_DOUBLINGS
RECURSIVE Pow2(_)
Pow2(n) == IF n = 0 THEN 1 ELSE 2 * Pow2(n - 1)
\* getRetryBackoff(mappedError, attemptNumber)
GetRetryBackoff(mappedError, attemptNumber) ==
  IF ~mappedError.made THEN 0
  ELSE BaseBackoff(mappedError) * Pow2(GrowthExponent(attemptNumber))

\* The messages raw errors carry.
MessageTexts ==
  {<<>>,
   <<"t", "i", "m", "e", "o", "u", "t">>,
   <<"T", "I", "M", "E", "O", "U", "T">>,
   <<"R", "e", "q", "u", "e", "s", "t", " ", "T", "i", "m", "e", "d", " ", "O", "u", "t">>,
   <<"p", "e", "r", "m", "i", "s", "s", "i", "o", "n", " ", "d", "e", "n", "i", "e", "d", ":", " ", "t", "i", "m", "e", "o", "u", "t">>,
   <<"t", "i", "m", "e", "o", "u", "t", ":", " ", "p", "e", "r", "m", "i", "s", "s", "i", "o", "n", " ", "d", "e", "n", "i", "e", "d">>,
   <<"t", "i", "m", "e", "o", "u", "t", ":", " ", "n", "o", "t", " ", "f", "o", "u", "n", "d">>,
   <<"F", "i", "l", "e", " ", "E", "x", "i", "s", "t", "s">>,
   <<"n", "o", " ", "s", "u", "c", "h", " ", "f", "i", "l", "e">>,
   <<"r", "e", "s", "o", "u", "r", "c", "e", " ", "b", "u", "s", "y">>,
   <<"C", "o", "n", "n", "e", "c", "t", "i", "o", "n", " ", "R", "e", "f", "u", "s", "e", "d">>,
   <<"r", "a", "t", "e", " ", "l", "i", "m", "i", "t">>,
   <<"T", "o", "o", " ", "M", "a", "n", "y", " ", "R", "e", "q", "u", "e", "s", "t", "s">>,
   <<"q", "u", "o", "t", "a", " ", "i", "n", "v", "a", "l", "i", "d">>,
   <<"i", "n", "v", "a", "l", "i", "d">>,
   <<"u", "n", "a", "u", "t", "h", "o", "r", "i", "z", "e", "d">>,
   <<"F", "o", "r", "b", "i", "d", "d", "e", "n">>,
   <<"I", "n", "t", "e", "r", "n", "a", "l", " ", "S", "e", "r", "v", "e", "r", " ", "E", "r", "r", "o", "r">>,
   <<"s", "e", "r", "v", "i", "c", "e", " ", "u", "n", "a", "v", "a", "i", "l", "a", "b", "l", "e">>,
   <<"b", "a", "d", " ", "r", "e", "q", "u", "e", "s", "t">>,
   <<"d", "i", "s", "k", " ", "f", "a", "i", "l", "u", "r", "e">>}

(***************************************************************************)
(* error-mapper.js, the tracker of asynchronous NSEC3 operations.          *)
(***************************************************************************)
BASE_TIMEOUT_MS == 60000
DOMAIN_TIMEOUT_MS == 30000
MAX_TIMEOUT_MS == 600000
DEFAULT_MAX_AGE_MINUTES == 60
MS_PER_MINUTE == 60 * 1000
MAX_PROGRESS == 100

\* The domains argument: an array of entries, or something that is no array.
NotAnArray == [isArray |-> FALSE, items |-> <<>>]
Array(items) == [isArray |-> TRUE, items |-> items]
\* d && typeof d === 'string' && d.length > 0
ValidDomain(d) == d.isString /\ d.chars # <<>>
\* A mutant of ValidDomainCount: every entry counts.
ValidDomainCountAll(items) == Len(items)
\* domains.filter(...).length
ValidDomainCount(items) ==
  Cardinality({i \in 1..Len(items) : ValidDomain(items[i])})
\* calculateNsec3Timeout(domains)
CalculateNsec3Timeout(domains) ==
  IF ~domains.isArray THEN BASE_TIMEOUT_MS
  ELSE LET calculatedTimeout ==
             BASE_TIMEOUT_MS + DOMAIN_TIMEOUT_MS * ValidDomainCount(domains.items)
       IN  IF calculatedTimeout < MAX_TIMEOUT_MS THEN calculatedTimeout
           ELSE MAX_TIMEOUT_MS

\* The operation ids: nsec3_ and the hex digits, here one digit.
OpId(n) ==
  <<"nsec3_", IF n = 1 THEN "1" ELSE IF n = 2 THEN "2" ELSE IF n = 3 THEN "3" ELSE "4">>
\* The operationId arguments callers pass to startAsyncOperation: null, or
\* an id of their own, with or without blanks around it.
StartIdArgs == {NotAString, Str(<<"o">>), Str(<<" ", "o", " ">>)}
\* The operationId arguments callers pass to the other entry points.
OpIdArgs ==
  {NotAString, Str(<<"o">>), Str(<<" ", "o", " ">>)}
    \cup {Str(OpId(n)) : n \in 1..MaxOps}
\* The type arguments.
TypeArgs == {Str(<<"C">>), Str(<<>>), NotAString}
\* The domains arguments.
DomainsArgs == {NotAnArray, Array(<<>>), Array(<<Str(<<"a">>), Str(<<>>)>>)}
\* type.toLowerCase()
ToLowerCase(chars) == [i \in 1..Len(chars) |-> LowerChar(chars[i])]

\* The progress arguments: a number, or something that is no number.
ProgressNotNumber == [isNumber |-> FALSE, n |-> Num(0)]
Progress(n) == [isNumber |-> TRUE, n |-> n]
ProgressArgs ==
  {ProgressNotNumber, Progress(NaN), Progress(Num(-1)), Progress(Num(0)),
   Progress(Num(50)), Progress(Num(MAX_PROGRESS)), Progress(Num(MAX_PROGRESS + 1))}
\* typeof progress !== 'number' || progress < 0 || progress > 100
InvalidProgress(p) ==
  ~p.isNumber \/ NumLt(p.n, Num(0)) \/ NumLt(Num(MAX_PROGRESS), p.n)

\* The statusData arguments: omitted (= {}), an object that may carry
\* completedSteps and result, or null.
DataOmitted == [kind |-> "omitted", completedSteps |-> Null, result |-> "undefined"]
DataObject(steps, result) ==
  [kind |-> "object", completedSteps |-> steps, result |-> result]
DataNull == [kind |-> "null", completedSteps |-> Null, result |-> "undefined"]
StatusDataArgs == {DataOmitted, DataObject(<<1>>, "R"), DataNull}

\* The errorMessage arguments.
MessageArgs == {"boom", ""}
DefaultFailure == "Operacao falhou sem detalhes de erro"
TimeoutFailure == "Operacao expirou (timeout)"

\* The callback arguments: the functions A, B and N, or something that is
\* no function.  A returns; B throws an Error whenever it is called; N
\* throws null, a value that has no property `message`.
NotAFunction == "notAFunction"
CallbackArgs == {"A", "B", "N", NotAFunction}
ThrowingObservers == {"B", "N"}
NullThrowingObservers == {"N"}

\* The maxAgeMinutes arguments: omitted, or a number of minutes.
AgeMinutesOmitted == [kind |-> "omitted", minutes |-> 0]
AgeMinutes(n) == [kind |-> "number", minutes |-> n]
OpMaxAgeArgs == {AgeMinutesOmitted, AgeMinutes(0)}

\* The instants the clock visits while an operation runs: its start at 1,
\* and the instants around its timeout.
TimeoutInstants ==
  {1} \cup {1 + BASE_TIMEOUT_MS + DOMAIN_TIMEOUT_MS + i : i \in 0..MaxTick}
\* The instants the clock visits while operations are kept: 1,
\* and the instants around the retention age of an operation completed
\* then.
RetentionInstants ==
  {1} \cup {1 + DEFAULT_MAX_AGE_MINUTES * MS_PER_MINUTE + i : i \in 0..MaxTick}

NoOpRet ==
  [op |-> "none", threw |-> FALSE, error |-> "none", id |-> <<>>,
   status |-> "null", timeout |-> 0, updated |-> FALSE, registered |-> FALSE,
   data |-> <<>>, notified |-> <<>>, removed |-> 0]
\* What the model keeps of the last call: which it was, whether it went
\* well, whom it notified and how many records it removed.
Brief(ret) ==
  [op |-> ret.op, ok |-> ret.error = "none", threw |-> ret.threw,
   notified |-> ret.notified, removed |-> ret.removed]
OpFail(op, id, err) == [NoOpRet EXCEPT !.op = op, !.id = id, !.error = err]

\* The record startAsyncOperation stores.
NewOperation(id, type, domains, t) ==
  [operationId |-> id, type |-> ToLowerCase(type.chars),
   domains |-> domains.items, status |-> "queued", progress |-> Num(0),
   result |-> "null", error |-> "null",
   timeout |-> CalculateNsec3Timeout(domains), startedAt |-> t,
   completedAt |-> Null, totalSteps |-> Len(domains.items), completedSteps |-> 0]
\* A mutant of DuplicateOperation: no id is taken.
DuplicateOperationNever(ops, id) == FALSE
\* operations.has(finalOperationId)
DuplicateOperation(ops, id) == id \in DOMAIN ops
\* startAsyncOperation(operationId, type, domains) at instant t,
\* generateOperationId giving OpId(n).
StartAsyncOperationOutcome(ops, idArg, type, domains, t, n) ==
  IF InvalidString(type)
    THEN [operations |-> ops, ret |-> OpFail("start", <<>>, "invalid_type")]
  ELSE IF ~domains.isArray \/ Len(domains.items) = 0
    THEN [operations |-> ops, ret |-> OpFail("start", <<>>, "invalid_domains")]
  ELSE LET id == IF InvalidString(idArg) THEN OpId(n) ELSE idArg.chars
       IN  IF DuplicateOperation(ops, id)
             THEN [operations |-> ops, ret |-> OpFail("start", id, "exists")]
             ELSE [operations |-> MapSet(ops, id, NewOperation(id, type, domains, t)),
                   ret |-> [NoOpRet EXCEPT !.op = "start", !.id = id,
                                           !.status = "queued",
                                           !.timeout = CalculateNsec3Timeout(domains)]]

\* A mutant of TimedOut: a queued operation times out as well.
TimedOutWhileWaiting(op, t) ==
  op.status \in {"queued", "in_progress"} /\ t - op.startedAt > op.timeout
\* operation.status === IN_PROGRESS && elapsed > operation.timeout
TimedOut(op, t) == op.status = "in_progress" /\ t - op.startedAt > op.timeout
\* getOperationStatus(operationId) at instant t
GetOperationStatusOutcome(ops, arg, t) ==
  LET id == Trim(arg.chars)
  IN  IF InvalidString(arg)
        THEN [operations |-> ops, ret |-> OpFail("status", <<>>, "invalid_id")]
      ELSE IF id \notin DOMAIN ops
        THEN [operations |-> ops, ret |-> OpFail("status", id, "not_found")]
      ELSE LET op == IF TimedOut(ops[id], t)
                       THEN [ops[id] EXCEPT !.status = "failed",
                                            !.error = TimeoutFailure,
                                            !.completedAt = <<t>>]
                       ELSE ops[id]
           IN  [operations |-> [ops EXCEPT ![id] = op],
                ret |-> [NoOpRet EXCEPT
                           !.op = "status", !.id = id, !.status = op.status,
                           !.data = <<[status |-> op.status,
                                       progress |-> op.progress,
                                       completedSteps |-> op.completedSteps,
                                       totalSteps |-> op.totalSteps,
                                       elapsed |-> t - op.startedAt,
                                       timeout |-> op.timeout,
                                       result |-> op.result,
                                       error |-> op.error]>>]]

\* A mutant of StatusAfterUpdate: an update with 100 completes a failed
\* operation as well.
StatusAfterUpdateFromFailed(status, p) ==
  LET started == IF status = "queued" /\ NumLt(Num(0), p)
                   THEN "in_progress" ELSE status
  IN  IF p = Num(MAX_PROGRESS) /\ started \in {"in_progress", "failed"} THEN "completed"
      ELSE started
\* A mutant of StatusAfterUpdate: one transition per call.
StatusAfterUpdateOneStep(status, p) ==
  IF status = "queued" /\ NumLt(Num(0), p) THEN "in_progress"
  ELSE IF p = Num(MAX_PROGRESS) /\ status = "in_progress" THEN "completed"
  ELSE status
\* The status after updateOperationProgress(id, p): the two tests of the
\* code, one after the other.
StatusAfterUpdate(status, p) ==
  LET started == IF status = "queued" /\ NumLt(Num(0), p)
                   THEN "in_progress" ELSE status
  IN  IF p = Num(MAX_PROGRESS) /\ started = "in_progress" THEN "completed"
      ELSE started
\* callbacks.forEach(callback => { try { callback(note) } catch (error) {
\* logger.error(..., { error: error.message }) } }): the calls made, in
\* order.  The catch clause reads error.message, which throws a TypeError
\* when the value caught is null or undefined; that TypeError leaves
\* forEach, and the callbacks after it are not called.
NotifyObservers(callbacks, note) ==
  LET escaping == {i \in 1..Len(callbacks) : callbacks[i] \in NullThrowingObservers}
      last == IF escaping = {} THEN Len(callbacks)
              ELSE CHOOSE i \in escaping : \A j \in escaping : i <= j
  IN  [i \in 1..last |-> [observer |-> callbacks[i], note |-> note]]
\* Whether the catch clause throws during the round.
NotifyThrows(callbacks) ==
  \E i \in 1..Len(callbacks) : callbacks[i] \in NullThrowingObservers
\* updateOperationProgress(operationId, progress, statusData) at instant t
UpdateOperationProgressOutcome(ops, cbs, arg, p, data, t) ==
  LET id == Trim(arg.chars)
  IN  IF InvalidString(arg)
        THEN [operations |-> ops, ret |-> OpFail("update", <<>>, "invalid_id")]
      ELSE IF InvalidProgress(p)
        THEN [operations |-> ops, ret |-> OpFail("update", <<>>, "invalid_progress")]
      ELSE IF id \notin DOMAIN ops
        THEN [operations |-> ops, ret |-> OpFail("update", id, "not_found")]
      ELSE IF data.kind = "null"
        THEN [operations |-> [ops EXCEPT ![id].progress = p.n],
              ret |-> [OpFail("update", id, "TypeError") EXCEPT !.threw = TRUE]]
      ELSE LET op == ops[id]
               status == StatusAfterUpdate(op.status, p.n)
               completes == status = "completed" /\ op.status # "completed"
               after ==
                 [op EXCEPT
                    !.progress = p.n,
                    !.completedSteps =
                       IF data.completedSteps # Null THEN data.completedSteps[1] ELSE @,
                    !.status = status,
                    !.completedAt = IF completes THEN <<t>> ELSE @,
                    !.result = IF ~completes THEN @
                               ELSE IF data.result = "undefined" THEN "{}"
                               ELSE data.result]
               callbacks == IF id \in DOMAIN cbs THEN cbs[id] ELSE <<>>
               notified == NotifyObservers(callbacks,
                             [operationId |-> id, progress |-> p.n,
                              status |-> status])
           IN  IF NotifyThrows(callbacks)
                 THEN [operations |-> [ops EXCEPT ![id] = after],
                       ret |-> [OpFail("update", id, "TypeError") EXCEPT
                                  !.threw = TRUE, !.notified = notified]]
               ELSE [operations |-> [ops EXCEPT ![id] = after],
                     ret |-> [NoOpRet EXCEPT
                                !.op = "update", !.id = id, !.updated = TRUE,
                                !.status = status, !.notified = notified]]

\* A mutant of FailedRecord: the error is left as it was.
FailedRecordKeepsError(op, msg, t) ==
  [op EXCEPT !.status = "failed", !.completedAt = <<t>>]
\* A mutant of FailedRecord: a completed or failed operation is left alone.
FailedRecordUnlessTerminal(op, msg, t) ==
  IF op.status \in {"completed", "failed"} THEN op
  ELSE [op EXCEPT !.status = "failed",
                  !.error = IF msg = "" THEN DefaultFailure ELSE msg,
                  !.completedAt = <<t>>]
\* The record after failOperation(id, msg) at instant t.
FailedRecord(op, msg, t) ==
  [op EXCEPT !.status = "failed",
             !.error = IF msg = "" THEN DefaultFailure ELSE msg,
             !.completedAt = <<t>>]
\* failOperation(operationId, errorMessage) at instant t
FailOperationOutcome(ops, arg, msg, t) ==
  LET id == Trim(arg.chars)
  IN  IF InvalidString(arg)
        THEN [operations |-> ops, ret |-> OpFail("fail", <<>>, "invalid_id")]
      ELSE IF id \notin DOMAIN ops
        THEN [operations |-> ops, ret |-> OpFail("fail", id, "not_found")]
      ELSE [operations |-> [ops EXCEPT ![id] = FailedRecord(ops[id], msg, t)],
            ret |-> [NoOpRet EXCEPT !.op = "fail", !.id = id, !.updated = TRUE,
                                    !.status = "failed"]]

\* onOperationProgress(operationId, callback)
OnOperationProgressOutcome(cbs, arg, callback) ==
  LET id == Trim(arg.chars)
  IN  IF InvalidString(arg) \/ callback = NotAFunction
        THEN [progressCallbacks |-> cbs, ret |-> OpFail("observe", <<>>, "not_registered")]
      ELSE [progressCallbacks |->
              MapSet(cbs, id, Append(IF id \in DOMAIN cbs THEN cbs[id] ELSE <<>>,
                                     callback)),
            ret |-> [NoOpRet EXCEPT !.op = "observe", !.id = id, !.registered = TRUE]]

\* getOperationStats()
\* A mutant of GetOperationStats: cancelled is what the other counts leave
\* of the total.
GetOperationStatsRest(ops) ==
  LET count(st) == Cardinality({i \in DOMAIN ops : ops[i].status = st})
  IN  [total |-> Cardinality(DOMAIN ops), queued |-> count("queued"),
       inProgress |-> count("in_progress"), completed |-> count("completed"),
       failed |-> count("failed"),
       cancelled |-> Cardinality(DOMAIN ops) - count("queued")
                       - count("in_progress") - count("completed")]
GetOperationStats(ops) ==
  LET count(st) == Cardinality({i \in DOMAIN ops : ops[i].status = st})
  IN  [total |-> Cardinality(DOMAIN ops), queued |-> count("queued"),
       inProgress |-> count("in_progress"), completed |-> count("completed"),
       failed |-> count("failed"), cancelled |-> count("cancelled")]

\* cleanupOldOperations(maxAgeMinutes) at instant t: the ids it removes.
OpMaxAgeMs(a) ==
  (IF a.kind = "omitted" THEN DEFAULT_MAX_AGE_MINUTES ELSE a.minutes) * MS_PER_MINUTE
\* A mutant of OperationsToRemove: the age is taken from the start.
OperationsToRemoveByStart(ops, a, t) ==
  {id \in DOMAIN ops : t - ops[id].startedAt > OpMaxAgeMs(a)}
OperationsToRemove(ops, a, t) ==
  {id \in DOMAIN ops :
     /\ ops[id].status \notin {"in_progress", "queued"}
     /\ ops[id].completedAt # Null
     /\ ops[id].completedAt[1] # 0
     /\ t - ops[id].completedAt[1] > OpMaxAgeMs(a)}

(***************************************************************************)
(* The lock manager's operations as steps.  Each call runs to completion:  *)
(* the module is synchronous and Node.js runs one callback at a time.      *)
(***************************************************************************)
\* What acquireLock(r, t) and releaseLock(r) do when called in the current
\* state.
AcquireNow(r, t) == AcquireLockOutcome(locks, r, t, now, nextLockId)
ReleaseNow(r) == ReleaseLockOutcome(locks, r)

\* The lock manager after the module has been loaded.
LockTableInit ==
  /\ locks = << >>
  /\ nextLockId = 1
  /\ lockRet = NoLockRet
  /\ pc = [c \in Callers |-> "idle"]
  /\ lease = [c \in Callers |-> NoLease]
  /\ everOverran = FALSE

\* The transaction log after the module has been loaded.
TxTableInit ==
  /\ heap = CallerHeap
  /\ transactions = << >>
  /\ nextTxn = 1
  /\ txRet = NoTxRet
  /\ held = << >>
  /\ nMutations = 0

\* The tracker after the module has been loaded.
OpTableInit ==
  /\ operations = << >>
  /\ progressCallbacks = << >>
  /\ nextOp = 1
  /\ opRet = Brief(NoOpRet)
\* No calculateNsec3Timeout call of a caller's own has been made.
NoTimeoutCall ==
  /\ targets = Array(<<>>)
  /\ finalTimeout = 0
\* No call of isRecoverable or getRetryBackoff has been made.
NoRetryRet == [op |-> "none", attempt |-> 0, backoff |-> 0, recoverable |-> FALSE]
\* No handleApiCall activation is under way.
NoApiCall ==
  [pc |-> "none", attempt |-> 0, reattempts |-> 0, waits |-> <<>>, status |-> "none"]
\* The classifier has not been called.
NoClassification ==
  /\ whmError = Raw("falsy", CodeUndefined, CodeUndefined, MsgUndefined,
                    MsgUndefined, MsgUndefined)
  /\ mapped = NotMapped
  /\ retryRet = NoRetryRet
  /\ apiCall = NoApiCall

LockInit == LockTableInit /\ TxTableInit /\ OpTableInit /\ NoTimeoutCall /\ NoClassification /\ now = 0

\* The effect of one acquireLock call on the lock manager's own state.
AcquireLockCall(resource, timeout) ==
  LET out == AcquireNow(resource, timeout)
  IN  /\ out.ret.ok => nextLockId <= MaxLockIds
      /\ locks' = out.locks
      /\ lockRet' = out.ret
      /\ nextLockId' = IF out.ret.ok THEN nextLockId + 1 ELSE nextLockId
      /\ now' = now

\* The effect of one releaseLock call on the lock manager's own state.
ReleaseLockCall(resource) ==
  LET out == ReleaseNow(resource)
  IN  /\ locks' = out.locks
      /\ lockRet' = out.ret
      /\ UNCHANGED <<now, nextLockId>>

AcquireLock(resource, timeout) ==
  AcquireLockCall(resource, timeout) /\ UNCHANGED <<callerVars, txVars, opVars, nsecVars, mapperVars>>

ReleaseLock(resource) ==
  ReleaseLockCall(resource) /\ UNCHANGED <<callerVars, txVars, opVars, nsecVars, mapperVars>>

IsLocked(resource) ==
  LET out == IsLockedOutcome(locks, resource, now)
  IN  /\ locks' = out.locks
      /\ lockRet' = out.ret
      /\ UNCHANGED <<now, nextLockId, callerVars, txVars, opVars, nsecVars, mapperVars>>

\* One firing of the setInterval callback.
StaleCheck ==
  LET stale == StaleLocks(locks, now)
  IN  /\ locks' = [k \in DOMAIN locks \ stale |-> locks[k]]
      /\ lockRet' = [NoLockRet EXCEPT !.op = "staleCheck", !.removed = stale]
      /\ UNCHANGED <<now, nextLockId, callerVars, txVars, opVars, nsecVars, mapperVars>>

\* The timeout of lock l has elapsed at instant t: t - acquiredAt >= timeout.
TimeoutElapsed(l, t) == ~l.timeout.nan /\ t - l.timestamp >= l.timeout.v
\* A caller is still working although its lock's timeout has elapsed at t.
Overran(c, t) == pc[c] = "work" /\ TimeoutElapsed(lease[c], t)

\* Time passes.
Tick ==
  /\ \E t \in Instants : t > now /\ now' = t
  /\ everOverran' = (everOverran \/ \E c \in Callers : Overran(c, now'))
  /\ UNCHANGED <<locks, nextLockId, lockRet, pc, lease, txVars, opVars, nsecVars, mapperVars>>

LockNext ==
  \/ \E r \in ResourceArgs, t \in TimeoutArgs : AcquireLock(r, t)
  \/ \E r \in ResourceArgs : ReleaseLock(r)
  \/ \E r \in ResourceArgs : IsLocked(r)
  \/ StaleCheck
  \/ Tick

\* Any caller may call any operation at any instant; the timer keeps firing
\* and time keeps passing.
LockSpec ==
  LockInit /\ [][LockNext]_vars /\ WF_vars(StaleCheck) /\ WF_vars(Tick)

\* clearAllLocks, the helper for tests and reinitialisation.
ClearAllLocks ==
  LET out == ClearAllLocksOutcome(locks)
  IN  /\ locks' = out.locks
      /\ lockRet' = out.ret
      /\ UNCHANGED <<now, nextLockId, callerVars, txVars, opVars, nsecVars, mapperVars>>

\* The lock manager with every function it exports.
LockAdminNext ==
  \/ LockNext
  \/ ClearAllLocks

LockAdminSpec == LockInit /\ [][LockAdminNext]_vars

(***************************************************************************)
(* Callers that follow the documented pattern:                             *)
(*   const l = acquireLock(r, t);                                          *)
(*   if (l.acquired) { try { work } finally { releaseLock(r) } }           *)
(***************************************************************************)
CallerAcquire(c, resource, timeout) ==
  /\ pc[c] = "idle"
  /\ AcquireLockCall(resource, timeout)
  /\ pc' = [pc EXCEPT ![c] = IF lockRet'.ok THEN "work" ELSE "idle"]
  /\ lease' = [lease EXCEPT ![c] =
       IF lockRet'.ok
         THEN [key |-> lockRet'.key, lockId |-> lockRet'.lockId,
               timestamp |-> now, timeout |-> locks'[lockRet'.key].timeout,
               resource |-> resource]
         ELSE lease[c]]
  /\ UNCHANGED <<everOverran, txVars, opVars, nsecVars, mapperVars>>

CallerRelease(c) ==
  /\ pc[c] = "work"
  /\ ReleaseLockCall(lease[c].resource)
  /\ pc' = [pc EXCEPT ![c] = "idle"]
  /\ UNCHANGED <<lease, everOverran, txVars, opVars, nsecVars, mapperVars>>

PatternNext ==
  \/ \E c \in Callers, r \in PatternResourceArgs, t \in PatternTimeoutArgs :
       CallerAcquire(c, r, t)
  \/ \E c \in Callers : CallerRelease(c)
  \/ StaleCheck
  \/ Tick

PatternSpec == LockInit /\ [][PatternNext]_vars

(***************************************************************************)
(* Properties of the lock manager.                                         *)
(***************************************************************************)
\* A call with well-formed arguments: a non-empty string and a positive
\* number of milliseconds (or none, for the default).
WellFormedAcquire(r, t) ==
  /\ r.isString /\ r.chars # <<>>
  /\ \/ t.kind = "omitted"
     \/ t.kind = "number" /\ ~t.n.nan /\ t.n.v > 0
\* The lock l is within its timeout window at t: t - acquiredAt < timeout.
WithinWindow(l, t) == ~l.timeout.nan /\ t - l.timestamp < l.timeout.v
\* The ids of the locks in the table.
LockIdsIn(lk) == {lk[k].lockId : k \in DOMAIN lk}

\* C1: once acquireLock(R) has succeeded, every acquireLock(R) fails until
\* the lock has been released or now - acquiredAt >= its timeout: in every
\* state any interleaving of calls reaches, an acquireLock that succeeds
\* finds no entry for R, or one whose timeout has elapsed, and leaves one
\* entry for R (its own) and every other resource's entry as it was.
C1_ExclusiveWhileLive ==
  \A r \in ResourceArgs, t \in TimeoutArgs :
    LET out == AcquireNow(r, t)
        key == Trim(r.chars)
    IN  out.ret.ok =>
          /\ key \in DOMAIN locks => TimeoutElapsed(locks[key], now)
          /\ out.locks[key].lockId = out.ret.lockId
          /\ \A k \in DOMAIN locks \ {key} :
               k \in DOMAIN out.locks /\ out.locks[k] = locks[k]
\* An acquireLock has just failed against an entry still within its window.
C1_Witness ==
  /\ lockRet.op = "acquireLock" /\ ~lockRet.ok
  /\ lockRet.key \in DOMAIN locks
  /\ WithinWindow(locks[lockRet.key], now)
  /\ now > locks[lockRet.key].timestamp

\* No two callers are in their work section for the same resource.
MutualExclusion ==
  \A c1, c2 \in Callers :
    (c1 # c2 /\ pc[c1] = "work" /\ pc[c2] = "work") =>
      lease[c1].key # lease[c2].key
\* C2 as stated: with every caller following the pattern, no two callers are
\* in their work section for the same resource, however long the work takes.
C2_Original == MutualExclusion
\* C2 as amended: ... as long as every caller has left its work section
\* (called releaseLock) before its lock's timeout elapsed.
C2_ExclusiveWithinTimeout == ~everOverran => MutualExclusion
\* One caller is working on a resource that another caller has just been
\* refused, and nobody has overrun a timeout.
C2_Witness ==
  /\ ~everOverran
  /\ \E c \in Callers :
       /\ pc[c] = "work"
       /\ lockRet.op = "acquireLock" /\ lockRet.error = "busy"
       /\ lockRet.key = lease[c].key
       /\ now > lease[c].timestamp

\* C3: a second acquireLock(R) within the first lock's timeout window fails
\* (acquired=false, no token) with a busy error reporting a remaining time
\* > 0, and leaves the entry (token, acquiredAt, timeout) unchanged.
C3_BusyLeavesEntry ==
  \A r \in ResourceArgs, t \in TimeoutArgs :
    LET out == AcquireNow(r, t)
        key == Trim(r.chars)
    IN  (/\ WellFormedAcquire(r, t)
         /\ key \in DOMAIN locks
         /\ WithinWindow(locks[key], now)) =>
          /\ ~out.ret.ok
          /\ out.ret.lockId = 0
          /\ out.ret.error = "busy"
          /\ ~out.ret.secs.nan /\ out.ret.secs.v > 0
          /\ out.locks = locks
\* A busy failure one millisecond before the lock expires: it reports 1 s.
C3_Witness ==
  /\ lockRet.op = "acquireLock" /\ lockRet.error = "busy"
  /\ lockRet.secs = Num(1)
  /\ lockRet.key \in DOMAIN locks
  /\ locks[lockRet.key].timeout = Num(MAX_LOCK_TIMEOUT)
  /\ now - locks[lockRet.key].timestamp = MAX_LOCK_TIMEOUT - 1

\* C4: once T has elapsed since a successful acquireLock(R, T), the next
\* well-formed acquireLock(R) succeeds in that same call, with the stale
\* entry still in the table, and installs a new lock with a fresh token and
\* acquiredAt = now.
C4_StaleReclaimedInCall ==
  \A r \in ResourceArgs, t \in TimeoutArgs :
    LET out == AcquireNow(r, t)
        key == Trim(r.chars)
    IN  (/\ WellFormedAcquire(r, t)
         /\ key \in DOMAIN locks
         /\ TimeoutElapsed(locks[key], now)) =>
          /\ out.ret.ok /\ out.ret.error = "none"
          /\ out.ret.lockId # 0
          /\ out.ret.lockId \notin LockIdsIn(locks)
          /\ key \in DOMAIN out.locks
          /\ out.locks[key].lockId = out.ret.lockId
          /\ out.locks[key].timestamp = now
          /\ WithinWindow(out.locks[key], now)
\* An acquireLock has just replaced a stale entry exactly at its expiry.
C4_Witness ==
  /\ lockRet.op = "acquireLock" /\ lockRet.ok
  /\ lockRet.removed = {lockRet.key}
  /\ locks[lockRet.key].timestamp = now
  /\ now = 1

\* C5 as stated: releaseLock(R) fails with a not-found error whenever R has
\* no live lock: there is no entry for R, or the entry's timeout has elapsed.
C5_Original ==
  \A r \in ResourceArgs :
    LET out == ReleaseNow(r)
        key == Trim(r.chars)
    IN  (/\ r.isString /\ r.chars # <<>>
         /\ \/ key \notin DOMAIN locks
            \/ TimeoutElapsed(locks[key], now)) =>
          (~out.ret.ok /\ out.ret.error = "not_found")
\* C5 as amended: releaseLock(R) fails with a not-found error exactly when
\* the table holds no entry for R, and then changes nothing; an entry whose
\* timeout has elapsed but that has not been reclaimed yet is released
\* like a live one.
C5_NotFoundIffNoEntry ==
  \A r \in ResourceArgs :
    LET out == ReleaseNow(r)
        key == Trim(r.chars)
    IN  (r.isString /\ r.chars # <<>>) =>
          /\ (~out.ret.ok /\ out.ret.error = "not_found")
               <=> key \notin DOMAIN locks
          /\ ~out.ret.ok => out.locks = locks
          /\ out.ret.ok =>
               /\ DOMAIN out.locks = DOMAIN locks \ {key}
               /\ \A k \in DOMAIN out.locks : out.locks[k] = locks[k]
\* A releaseLock has just failed as not found while another resource is
\* locked.
C5_Witness ==
  /\ lockRet.op = "releaseLock" /\ ~lockRet.ok /\ lockRet.error = "not_found"
  /\ lockRet.key \notin DOMAIN locks
  /\ locks # << >>

\* C6: a lock that was acquired and is never released is eventually deleted
\* by the sweep alone.  No stored timeout exceeds MAX_LOCK_TIMEOUT, so a
\* sweep that fires more than MAX_LOCK_TIMEOUT after an entry was acquired
\* deletes the entry.
C6_SweepReclaimsAbandoned ==
  [][StaleCheck =>
       \A k \in DOMAIN locks :
         now > locks[k].timestamp + MAX_LOCK_TIMEOUT => k \notin DOMAIN locks']_vars

(***************************************************************************)
(* The transaction log's operations as steps, and the caller's writes to   *)
(* the objects it holds.                                                   *)
(***************************************************************************)
TxInit == LockTableInit /\ TxTableInit /\ OpTableInit /\ NoTimeoutCall /\ NoClassification /\ now = 1

\* The structure of object r as a deep comparison sees it: the set of
\* <<path, value>>.  A property holding undefined counts as missing.
RECURSIVE DeepView(_, _, _, _)
DeepView(h, v, path, above) ==
  IF v.t = "absent" \/ (v.t = "prim" /\ v.p = "undefined") THEN {}
  ELSE IF v.t = "prim" THEN {<<path, v.p>>}
  ELSE IF v.r \in above THEN {<<path, "CYCLE">>}
  ELSE {<<path, "{">>}
         \cup UNION {DeepView(h, h[v.r][f], Append(path, f), above \cup {v.r})
                      : f \in Fields}
ViewOf(h, r) == DeepView(h, Ref(r), <<>>, {})

\* The objects reachable from the objects in `roots`.
RECURSIVE ReachableFrom(_, _)
ReachableFrom(h, roots) ==
  LET next == roots \cup UNION {{h[o][f].r : f \in {g \in Fields : h[o][g].t = "ref"}}
                                 : o \in roots}
  IN  IF next = roots THEN roots ELSE ReachableFrom(h, next)
\* The objects the caller can write to: its own, and whatever
\* beginTransaction and rollbackTransaction returned, with all they lead to.
CallerObjects ==
  ReachableFrom(heap,
    PayloadRoots \cup {held[i].begin : i \in DOMAIN held}
                 \cup {held[i].rolledBackup : i \in {j \in DOMAIN held : held[j].rolled}})
\* The properties the caller writes, and the values it writes.
MutationFields == {"type"}
MutationValues == {Prim("2"), Prim("bigint")}

BeginTransaction(arg) ==
  LET out == BeginTransactionOutcome(heap, transactions, arg, now, nextTxn)
      ok == ~out.ret.threw
  IN  /\ ok => nextTxn <= MaxTxns
      /\ heap' = out.heap
      /\ transactions' = out.transactions
      /\ txRet' = out.ret
      /\ nextTxn' = IF ok THEN nextTxn + 1 ELSE nextTxn
      /\ held' = IF ok
                   THEN MapSet(held, out.ret.id,
                               [payload |-> arg.r, begin |-> out.ret.backup,
                                atBegin |-> ViewOf(heap, arg.r),
                                rolled |-> FALSE, rolledBackup |-> 0,
                                rolledView |-> {}])
                   ELSE held
      /\ UNCHANGED <<nMutations, now, locks, nextLockId, lockRet, callerVars, opVars, nsecVars, mapperVars>>

CommitTransaction(arg) ==
  LET out == CommitTransactionOutcome(transactions, arg, now)
  IN  /\ transactions' = out.transactions
      /\ txRet' = out.ret
      /\ UNCHANGED <<heap, nextTxn, held, nMutations, now, locks,
                     nextLockId, lockRet, callerVars, opVars, nsecVars, mapperVars>>

RollbackTransaction(arg) ==
  LET out == RollbackTransactionOutcome(heap, transactions, arg, now)
  IN  /\ heap' = out.heap
      /\ transactions' = out.transactions
      /\ txRet' = out.ret
      /\ held' = IF out.ret.status = "rolled_back"
                   THEN [held EXCEPT ![out.ret.id] =
                           [@ EXCEPT !.rolled = TRUE,
                                     !.rolledBackup = out.ret.backup,
                                     !.rolledView = ViewOf(out.heap, out.ret.backup)]]
                   ELSE held
      /\ UNCHANGED <<nextTxn, nMutations, now, locks, nextLockId,
                     lockRet, callerVars, opVars, nsecVars, mapperVars>>

GetTransactionStatus(arg) ==
  /\ txRet' = GetTransactionStatusOutcome(heap, transactions, arg)
  /\ UNCHANGED <<heap, transactions, nextTxn, held, nMutations, now,
                 locks, nextLockId, lockRet, callerVars, opVars, nsecVars, mapperVars>>

CleanupOldTransactions(maxAge) ==
  LET toRemove == TransactionsToRemove(transactions, maxAge, now)
  IN  /\ transactions' = [id \in DOMAIN transactions \ toRemove |-> transactions[id]]
      /\ txRet' = [NoTxRet EXCEPT !.op = "cleanup", !.removed = Cardinality(toRemove)]
      /\ UNCHANGED <<heap, nextTxn, held, nMutations, now, locks,
                     nextLockId, lockRet, callerVars, opVars, nsecVars, mapperVars>>

\* The caller assigns to a property of an object it holds.
Mutate(o, f, v) ==
  /\ nMutations < MaxMutations
  /\ o \in CallerObjects
  /\ heap[o][f] # v
  /\ heap' = [heap EXCEPT ![o][f] = v]
  /\ nMutations' = nMutations + 1
  /\ UNCHANGED <<transactions, nextTxn, txRet, held, now, locks,
                 nextLockId, lockRet, callerVars, opVars, nsecVars, mapperVars>>

TxTick ==
  /\ \E t \in TxInstants : t > now /\ now' = t
  /\ UNCHANGED <<txVars, locks, nextLockId, lockRet, callerVars, opVars, nsecVars, mapperVars>>

TxNext ==
  \/ \E a \in {PayloadObject(1), PayloadNull, PayloadNumber} : BeginTransaction(a)
  \/ \E a \in TxnIdArgs : CommitTransaction(a)
  \/ \E a \in TxnIdArgs : RollbackTransaction(a)
  \/ \E a \in TxnIdArgs : GetTransactionStatus(a)
  \/ \E a \in MaxAgeArgs : CleanupOldTransactions(a)
  \/ TxTick

TxSpec == TxInit /\ [][TxNext]_vars

\* The transaction log with a caller that writes to the objects it holds.
BackupNext ==
  \/ \E a \in PayloadArgs : BeginTransaction(a)
  \/ \E a \in TxnIdArgs : CommitTransaction(a)
  \/ \E a \in TxnIdArgs : RollbackTransaction(a)
  \/ \E o \in 1..Len(heap), f \in MutationFields, v \in MutationValues : Mutate(o, f, v)

BackupSpec == TxInit /\ [][BackupNext]_vars

(***************************************************************************)
(* The tracker's operations as steps.                                      *)
(***************************************************************************)
OpsInit == LockTableInit /\ TxTableInit /\ OpTableInit /\ NoTimeoutCall /\ NoClassification /\ now = 1

\* How many observers are registered, over all ids.
ObserverCount(cbs) ==
  Cardinality({x \in (DOMAIN cbs) \X (1..MaxObservers) : x[2] <= Len(cbs[x[1]])})

StartAsyncOperation(idArg, type, domains) ==
  LET out == StartAsyncOperationOutcome(operations, idArg, type, domains, now, nextOp)
      ok == out.ret.status = "queued"
  IN  /\ ok => nextOp <= MaxOps
      /\ operations' = out.operations
      /\ opRet' = Brief(out.ret)
      /\ nextOp' = IF ok THEN nextOp + 1 ELSE nextOp
      /\ UNCHANGED <<progressCallbacks, now, locks, nextLockId, lockRet,
                     callerVars, txVars, nsecVars, mapperVars>>

GetOperationStatus(arg) ==
  LET out == GetOperationStatusOutcome(operations, arg, now)
  IN  /\ operations' = out.operations
      /\ opRet' = Brief(out.ret)
      /\ UNCHANGED <<progressCallbacks, nextOp, now, locks, nextLockId, lockRet,
                     callerVars, txVars, nsecVars, mapperVars>>

UpdateOperationProgress(arg, progress, statusData) ==
  LET out == UpdateOperationProgressOutcome(operations, progressCallbacks, arg,
                                            progress, statusData, now)
  IN  /\ operations' = out.operations
      /\ opRet' = Brief(out.ret)
      /\ UNCHANGED <<progressCallbacks, nextOp, now, locks, nextLockId, lockRet,
                     callerVars, txVars, nsecVars, mapperVars>>

FailOperation(arg, errorMessage) ==
  LET out == FailOperationOutcome(operations, arg, errorMessage, now)
  IN  /\ operations' = out.operations
      /\ opRet' = Brief(out.ret)
      /\ UNCHANGED <<progressCallbacks, nextOp, now, locks, nextLockId, lockRet,
                     callerVars, txVars, nsecVars, mapperVars>>

OnOperationProgress(arg, callback) ==
  LET out == OnOperationProgressOutcome(progressCallbacks, arg, callback)
  IN  /\ out.ret.registered => ObserverCount(progressCallbacks) < MaxObservers
      /\ progressCallbacks' = out.progressCallbacks
      /\ opRet' = Brief(out.ret)
      /\ UNCHANGED <<operations, nextOp, now, locks, nextLockId, lockRet,
                     callerVars, txVars, nsecVars, mapperVars>>

CleanupOldOperations(maxAge) ==
  LET toRemove == OperationsToRemove(operations, maxAge, now)
  IN  /\ operations' = [id \in DOMAIN operations \ toRemove |-> operations[id]]
      /\ progressCallbacks' =
           [id \in DOMAIN progressCallbacks \ toRemove |-> progressCallbacks[id]]
      /\ opRet' = Brief([NoOpRet EXCEPT !.op = "cleanup",
                                         !.removed = Cardinality(toRemove)])
      /\ UNCHANGED <<nextOp, now, locks, nextLockId, lockRet, callerVars, txVars, nsecVars, mapperVars>>

OpTick(instants) ==
  /\ \E t \in instants : t > now /\ now' = t
  /\ UNCHANGED <<opVars, locks, nextLockId, lockRet, callerVars, txVars, nsecVars, mapperVars>>

\* The tracker used for one operation at a time: the next one is started
\* when the table is empty again.
OpsNext ==
  \/ \E i \in StartIdArgs, ty \in TypeArgs, d \in DomainsArgs :
       /\ StartAsyncOperation(i, ty, d)
       /\ DOMAIN operations = {} \/ operations' = operations
  \/ \E a \in OpIdArgs : GetOperationStatus(a)
  \/ \E a \in OpIdArgs, p \in ProgressArgs, d \in StatusDataArgs :
       UpdateOperationProgress(a, p, d)
  \/ \E a \in OpIdArgs, m \in MessageArgs : FailOperation(a, m)
  \/ OpTick(TimeoutInstants)

OpsSpec == OpsInit /\ [][OpsNext]_vars

\* The tracker with observers and the cleanup, one operation at a time:
\* workers report progress or failure, observers that return or throw an
\* Error are registered, old operations are removed.
TrackerNext ==
  \/ \E i \in StartIdArgs, ty \in TypeArgs, d \in DomainsArgs :
       /\ StartAsyncOperation(i, ty, d)
       /\ DOMAIN operations = {} \/ operations' = operations
  \/ \E a \in OpIdArgs, p \in {Progress(Num(50)), Progress(Num(MAX_PROGRESS))} :
       UpdateOperationProgress(a, p, DataOmitted)
  \/ \E a \in OpIdArgs : FailOperation(a, "boom")
  \/ \E a \in StartIdArgs, c \in CallbackArgs \ NullThrowingObservers :
       OnOperationProgress(a, c)
  \/ \E a \in OpMaxAgeArgs : CleanupOldOperations(a)
  \/ OpTick(RetentionInstants)

TrackerSpec == OpsInit /\ [][TrackerNext]_vars

\* The tracker with observers of every kind, the clock standing still:
\* operations are started, observers registered and progress reported.
ObserverNext ==
  \/ \E i \in StartIdArgs, ty \in TypeArgs, d \in DomainsArgs :
       /\ StartAsyncOperation(i, ty, d)
       /\ DOMAIN operations = {} \/ operations' = operations
  \/ \E a \in StartIdArgs, c \in CallbackArgs : OnOperationProgress(a, c)
  \/ \E a \in OpIdArgs, p \in {Progress(Num(50)), Progress(Num(MAX_PROGRESS))} :
       UpdateOperationProgress(a, p, DataOmitted)

ObserverSpec == OpsInit /\ [][ObserverNext]_vars

\* The life of an operation from start to removal, without observers:
\* a worker reports progress or failure, a client reads the status, old
\* operations are removed, the clock passes the timeout and the retention
\* age.
LifecycleInstants == TimeoutInstants \cup RetentionInstants

LifecycleNext ==
  \/ \E i \in StartIdArgs, d \in DomainsArgs :
       /\ StartAsyncOperation(i, Str(<<"C">>), d)
       /\ DOMAIN operations = {} \/ operations' = operations
  \/ \E a \in OpIdArgs : GetOperationStatus(a)
  \/ \E a \in OpIdArgs, p \in {Progress(Num(50)), Progress(Num(MAX_PROGRESS))} :
       UpdateOperationProgress(a, p, DataObject(<<1>>, "R"))
  \/ \E a \in OpIdArgs : FailOperation(a, "boom")
  \/ \E a \in OpMaxAgeArgs : CleanupOldOperations(a)
  \/ OpTick(LifecycleInstants)

LifecycleSpec == OpsInit /\ [][LifecycleNext]_vars

(***************************************************************************)
(* calculateNsec3Timeout called on the lists a caller builds: a domain     *)
(* name, an empty string or a value that is no string is added to the      *)
(* list, or the timeout of the list is calculated.                         *)
(***************************************************************************)
\* The entries of a domain list: a name, the empty string, no string.
DomainEntries == {Str(<<"a">>), Str(<<>>), NotAString}

NsecInit ==
  /\ LockTableInit /\ TxTableInit /\ OpTableInit /\ NoClassification
  /\ now = 1
  /\ targets \in {NotAnArray, Array(<<>>)}
  /\ finalTimeout = 0

\* The caller adds an entry; each malformed entry is in the list once at
\* most.
AddDomain(d) ==
  /\ targets.isArray
  /\ Len(targets.items) < MaxDomains
  /\ ~ValidDomain(d) => \A i \in 1..Len(targets.items) : targets.items[i] # d
  /\ targets' = Array(Append(targets.items, d))
  /\ UNCHANGED <<finalTimeout, lockVars, callerVars, txVars, opVars, mapperVars>>

CalculateTimeout ==
  /\ finalTimeout' = CalculateNsec3Timeout(targets)
  /\ UNCHANGED <<targets, lockVars, callerVars, txVars, opVars, mapperVars>>

NsecNext ==
  \/ \E d \in DomainEntries : AddDomain(d)
  \/ CalculateTimeout

NsecSpec == NsecInit /\ [][NsecNext]_vars

(***************************************************************************)
(* The classifier called on raw errors of every shape, and isRecoverable   *)
(* and getRetryBackoff called on what it returned.                         *)
(***************************************************************************)
\* The values of code and errno: none, a kind, a code that is no kind, the
\* name of an inherited property, a number.
ObjectCodes ==
  {Code(k) : k \in ERROR_TYPES}
    \cup {CodeUndefined, Code("E_OTHER"), Code("constructor"), CodeNumber("999")}
ErrorCodes == {CodeUndefined, Code("EBUSY"), Code("E_OTHER"), Code("toString")}
ErrnoCodes == {CodeUndefined, Code("ENOENT")}
\* The values of message and msg.
FieldMessages == {MsgUndefined, Msg(<<"t", "i", "m", "e", "o", "u", "t">>), MsgNumber}
FieldMsgs == {MsgUndefined, Msg(<<"n", "o", "t", " ", "f", "o", "u", "n", "d">>)}
\* What JSON.stringify gives for the object: {"custom":"error"}, or a
\* TypeError for an object with a cycle.
JsonTexts == {Msg(<<"{", "\"", "c", "u", "s", "t", "o", "m", "\"", ":", "\"", "e", "r", "r", "o", "r", "\"", "}">>), MsgThrows}
RawInputs ==
  {Raw("falsy", CodeUndefined, CodeUndefined, MsgUndefined, MsgUndefined, MsgUndefined),
   Raw("other", CodeUndefined, CodeUndefined, MsgUndefined, MsgUndefined, MsgUndefined)}
    \cup {Raw("string", CodeUndefined, CodeUndefined, Msg(m), MsgUndefined, MsgUndefined) :
            m \in MessageTexts \ {<<>>}}
    \cup {Raw("error", c, CodeUndefined, m, MsgUndefined, MsgUndefined) :
            c \in ErrorCodes, m \in FieldMessages \cup {Msg(<<>>)}}
    \cup {Raw("object", x[1], x[2], x[3], x[4], x[5]) :
            x \in ObjectCodes \X ErrnoCodes \X FieldMessages \X FieldMsgs \X JsonTexts}

MapperInit ==
  /\ LockTableInit /\ TxTableInit /\ OpTableInit /\ NoTimeoutCall
  /\ now = 1
  /\ whmError \in RawInputs
  /\ mapped = NotMapped
  /\ retryRet = NoRetryRet
  /\ apiCall = NoApiCall

MapWhmErrorCall ==
  /\ mapped' = MapWhmError(whmError, now)
  /\ retryRet' = NoRetryRet
  /\ UNCHANGED <<whmError, apiCall, lockVars, callerVars, txVars, opVars, nsecVars>>

IsRecoverableCall ==
  /\ mapped.made
  /\ retryRet' = [NoRetryRet EXCEPT !.op = "isRecoverable",
                                    !.recoverable = IsRecoverable(mapped)]
  /\ UNCHANGED <<whmError, mapped, apiCall, lockVars, callerVars, txVars, opVars, nsecVars>>

GetRetryBackoffCall(attemptNumber) ==
  /\ mapped.made
  /\ retryRet' = [NoRetryRet EXCEPT !.op = "getRetryBackoff",
                                    !.attempt = attemptNumber,
                                    !.backoff = GetRetryBackoff(mapped, attemptNumber)]
  /\ UNCHANGED <<whmError, mapped, apiCall, lockVars, callerVars, txVars, opVars, nsecVars>>

MapperNext ==
  \/ MapWhmErrorCall
  \/ IsRecoverableCall
  \/ \E a \in 0..MaxAttempt : GetRetryBackoffCall(a)

MapperSpec == MapperInit /\ [][MapperNext]_vars

(***************************************************************************)
(* The documented caller of the retry policy, handleApiCall: it executes   *)
(* the operation; when that fails it classifies the error and, if the      *)
(* error is recoverable, waits and executes again, up to maxRetries times. *)
(* An activation is "executing" while it awaits executeOperation and       *)
(* "waiting" while it awaits the backoff timer.                            *)
(***************************************************************************)
\* A mutant of WithinRetries: one iteration more.
WithinRetriesInclusive(attempt, maxRetries) ==
  maxRetries.t = "number" /\ attempt <= maxRetries.n
\* attempt < maxRetries
WithinRetries(attempt, maxRetries) ==
  maxRetries.t = "number" /\ attempt < maxRetries.n

\* The call of isRecoverable or getRetryBackoff an activation made last.
IsRecoverableRet(m) ==
  [NoRetryRet EXCEPT !.op = "isRecoverable", !.recoverable = IsRecoverable(m)]
GetRetryBackoffRet(m, attempt) ==
  [NoRetryRet EXCEPT !.op = "getRetryBackoff", !.attempt = attempt,
                     !.backoff = GetRetryBackoff(m, attempt)]

\* The head of the for loop with the counter at attempt, up to the next
\* await or return: the backoff is computed and the wait begins, or the loop
\* is left and the error returned, with canRetry: isRecoverable(mappedError).
EnterIteration(call, m, attempt) ==
  IF WithinRetries(attempt, m.retry.maxRetries)
    THEN [call |-> [call EXCEPT !.pc = "waiting", !.attempt = attempt,
                                !.waits = Append(@, GetRetryBackoff(m, attempt))],
          ret |-> GetRetryBackoffRet(m, attempt)]
  ELSE [call |-> [call EXCEPT !.pc = "returned", !.attempt = attempt,
                              !.status = "error"],
        ret |-> IsRecoverableRet(m)]

\* The catch block of the first attempt: mapWhmError, which may throw, then
\* isRecoverable, then the loop or the error return.
CatchFirstFailure(call, raw, t) ==
  LET m == MapWhmError(raw, t)
      out == IF m.threw
               THEN [call |-> [call EXCEPT !.pc = "thrown", !.status = "thrown"],
                     ret |-> NoRetryRet]
             ELSE IF IsRecoverable(m) THEN EnterIteration(call, m, 0)
             ELSE [call |-> [call EXCEPT !.pc = "returned", !.status = "error"],
                   ret |-> IsRecoverableRet(m)]
  IN  [mapped |-> m, call |-> out.call, ret |-> out.ret]

RetryInit ==
  /\ LockTableInit /\ TxTableInit /\ OpTableInit /\ NoTimeoutCall
  /\ now = 1
  /\ whmError \in RawInputs
  /\ mapped = NotMapped
  /\ retryRet = NoRetryRet
  /\ apiCall = [NoApiCall EXCEPT !.pc = "executing"]

\* executeOperation returns: { status: 'success', data: result }
ExecuteSucceeds ==
  /\ apiCall.pc = "executing"
  /\ apiCall' = [apiCall EXCEPT !.pc = "returned", !.status = "success"]
  /\ UNCHANGED <<whmError, mapped, retryRet, lockVars, callerVars, txVars, opVars, nsecVars>>

\* The first executeOperation throws whmError.
FirstAttemptFails ==
  /\ apiCall.pc = "executing" /\ apiCall.reattempts = 0
  /\ LET out == CatchFirstFailure(apiCall, whmError, now)
     IN  mapped' = out.mapped /\ apiCall' = out.call /\ retryRet' = out.ret
  /\ UNCHANGED <<whmError, lockVars, callerVars, txVars, opVars, nsecVars>>

\* The backoff timer fires and executeOperation is called again.
BackoffElapses ==
  /\ apiCall.pc = "waiting"
  /\ apiCall' = [apiCall EXCEPT !.pc = "executing", !.reattempts = @ + 1]
  /\ UNCHANGED <<whmError, mapped, retryRet, lockVars, callerVars, txVars, opVars, nsecVars>>

\* executeOperation throws inside the loop: the error is dropped, attempt++.
ReattemptFails ==
  /\ apiCall.pc = "executing" /\ apiCall.reattempts > 0
  /\ LET out == EnterIteration(apiCall, mapped, apiCall.attempt + 1)
     IN  apiCall' = out.call /\ retryRet' = out.ret
  /\ UNCHANGED <<whmError, mapped, lockVars, callerVars, txVars, opVars, nsecVars>>

RetryNext ==
  \/ ExecuteSucceeds
  \/ FirstAttemptFails
  \/ BackoffElapses
  \/ ReattemptFails

RetrySpec == RetryInit /\ [][RetryNext]_vars
\* An awaited executeOperation settles and an awaited timer fires.
RetryLiveSpec == RetrySpec /\ WF_vars(RetryNext)

(***************************************************************************)
(* Properties of the transaction log.                                      *)
(***************************************************************************)
Terminal == {"committed", "rolled_back"}
\* The transactionId arguments that name the record id.
ArgsNaming(id) == {a \in TxnIdArgs : a.isString /\ Trim(a.chars) = id}
\* Object r cannot be written as JSON: it has an object below itself again,
\* or a BigInt.
CannotBeCopied(h, r) == \E e \in ViewOf(h, r) : e[2] \in {"CYCLE", "bigint"}

\* C7: For every transaction, whatever beginTransaction, commitTransaction,
\* rollbackTransaction, getTransactionStatus and cleanupOldTransactions calls
\* are made and however time passes, a record starts pending, a pending
\* record stays pending or becomes committed or rolled_back, and a committed
\* or rolled_back record keeps its state and its completedAt for as long as
\* it is in the table.
C7_TerminalStateIsFinal ==
  [][/\ \A id \in DOMAIN transactions' \ DOMAIN transactions :
          /\ transactions'[id].status = "pending"
          /\ transactions'[id].completedAt = Null
     /\ \A id \in DOMAIN transactions \cap DOMAIN transactions' :
          /\ transactions[id].status = "pending" =>
               \/ /\ transactions'[id].status = "pending"
                  /\ transactions'[id].completedAt = Null
               \/ /\ transactions'[id].status \in Terminal
                  /\ transactions'[id].completedAt = <<now>>
          /\ transactions[id].status \in Terminal =>
               /\ transactions'[id].status = transactions[id].status
               /\ transactions'[id].completedAt = transactions[id].completedAt]_vars
\* A committed transaction some time after its commit, a cleanup having
\* just run and left it in the table.
C7_Witness ==
  /\ txRet.op = "cleanup" /\ txRet.removed = 0
  /\ \E id \in DOMAIN transactions :
       /\ transactions[id].status = "committed"
       /\ now > transactions[id].completedAt[1]

\* C8: commitTransaction or rollbackTransaction on a transaction that is
\* already committed or rolled_back returns status null and an error that
\* names the state the transaction is in, returns no backup, and leaves the
\* table and every object as they are.
C8_SecondCompletionRefused ==
  \A id \in DOMAIN transactions : \A a \in ArgsNaming(id) :
    transactions[id].status \in Terminal =>
      LET c == CommitTransactionOutcome(transactions, a, now)
          r == RollbackTransactionOutcome(heap, transactions, a, now)
      IN  /\ ~c.ret.threw /\ ~r.ret.threw
          /\ c.ret.status = "null" /\ r.ret.status = "null"
          /\ c.ret.error = "not_pending" /\ r.ret.error = "not_pending"
          /\ c.ret.errorState = transactions[id].status
          /\ r.ret.errorState = transactions[id].status
          /\ c.ret.backup = 0 /\ r.ret.backup = 0
          /\ c.transactions = transactions
          /\ r.transactions = transactions /\ r.heap = heap
\* A rollback has just been refused on a committed transaction.
C8_Witness ==
  /\ txRet.op = "rollback" /\ txRet.error = "not_pending"
  /\ txRet.errorState = "committed"
  /\ txRet.id \in DOMAIN transactions
  /\ transactions[txRet.id].status = "committed"

\* C9: beginTransaction on an object that cannot be written as JSON (one
\* that holds itself, or a BigInt) throws and records nothing: the table,
\* getActiveTransactions() and getTransactionStats() are afterwards what they
\* were before the call, and no object has been made.
C9_FailedBeginRecordsNothing ==
  \A r \in PayloadRoots :
    CannotBeCopied(heap, r) =>
      LET out == BeginTransactionOutcome(heap, transactions, PayloadObject(r),
                                         now, nextTxn)
      IN  /\ out.ret.threw /\ out.ret.error = "backup_failed"
          /\ out.transactions = transactions
          /\ out.heap = heap
          /\ GetActiveTransactions(out.heap, out.transactions, now)
               = GetActiveTransactions(heap, transactions, now)
          /\ GetTransactionStats(out.transactions) = GetTransactionStats(transactions)
\* beginTransaction has just thrown on the object that holds itself, with a
\* transaction in the table.
C9_Witness ==
  /\ txRet.op = "begin" /\ txRet.threw /\ txRet.error = "backup_failed"
  /\ DOMAIN transactions # {}
  /\ CannotBeCopied(heap, 4)

\* C10: For every object P without cycles, the backup rollbackTransaction
\* returns after beginTransaction(P) is deep-equal to P as it was when
\* beginTransaction was called.
C10_RollbackReturnsPayload ==
  \A id \in DOMAIN held :
    held[id].rolled => held[id].rolledView = held[id].atBegin

\* What rollbackTransaction would return for the pending transaction id if
\* it were called now.
RollbackWouldReturn(h, tx, id) ==
  LET out == RollbackTransactionOutcome(h, tx, Str(id), now)
  IN  IF out.ret.threw THEN {<<<<>>, "THROWS">>}
      ELSE ViewOf(out.heap, out.ret.backup)

\* C11: No write a caller makes to an object it holds (its own objects, the
\* backup beginTransaction returned, the backup rollbackTransaction returned)
\* changes what rollbackTransaction returns for a transaction.
C11_CallerWritesLeaveBackup ==
  [][\A id \in DOMAIN transactions :
       (transactions' = transactions /\ transactions[id].status = "pending") =>
          RollbackWouldReturn(heap', transactions', id)
            = RollbackWouldReturn(heap, transactions, id)]_vars

\* The entries cleanupOldTransactions(a) is to remove at instant t: the
\* completed ones whose completedAt is more than the threshold ago.
OldCompleted(tx, a, t) ==
  {id \in DOMAIN tx :
     /\ tx[id].status \in Terminal
     /\ t - tx[id].completedAt[1]
          > (IF a = MaxAgeOmitted THEN 24 * 3600000 ELSE a.hours * 3600000)}

\* C12: cleanupOldTransactions(maxAgeHours) removes exactly the committed
\* and rolled_back entries whose completedAt is older than the threshold,
\* returns their number, leaves every other entry as it is, and never removes
\* a pending transaction, whatever its age and whatever the threshold.
C12_CleanupRemovesOldCompleted ==
  [][\A a \in MaxAgeArgs :
       CleanupOldTransactions(a) =>
         /\ DOMAIN transactions'
              = DOMAIN transactions \ OldCompleted(transactions, a, now)
         /\ \A id \in DOMAIN transactions' : transactions'[id] = transactions[id]
         /\ txRet'.removed = Cardinality(OldCompleted(transactions, a, now))
         /\ \A id \in DOMAIN transactions :
              transactions[id].status = "pending" => id \in DOMAIN transactions']_vars
\* A cleanup has just removed the one completed transaction there was.
C12_Witness ==
  /\ txRet.op = "cleanup" /\ txRet.removed = 1
  /\ DOMAIN transactions = {}
  /\ nextTxn > 1

(***************************************************************************)
(* Properties of the operation tracker.                                    *)
(***************************************************************************)
\* The operationId arguments that address the record id: the entry points
\* look the trimmed argument up.
OpArgsNaming(id) ==
  {a \in OpIdArgs : a.isString /\ a.chars # <<>> /\ Trim(a.chars) = id}
\* The arguments that address no record.
OpArgsNamingNone ==
  {a \in OpIdArgs : ~a.isString \/ a.chars = <<>> \/ Trim(a.chars) \notin DOMAIN operations}
\* The progress values and statusData an update is made with.
Percents == {Num(0), Num(50), Num(100)}
WellFormedData == {d \in StatusDataArgs : d.kind # "null"}

\* C13: Once an operation is completed or failed, no call of
\* updateOperationProgress, failOperation or getOperationStatus changes its
\* state.
C13_TerminalStateIsKept ==
  \A id \in DOMAIN operations :
    operations[id].status \in {"completed", "failed"} =>
      \A a \in OpIdArgs :
        /\ \A p \in ProgressArgs, d \in StatusDataArgs :
             UpdateOperationProgressOutcome(operations, progressCallbacks, a, p, d, now)
               .operations[id].status = operations[id].status
        /\ \A m \in MessageArgs :
             FailOperationOutcome(operations, a, m, now).operations[id].status
               = operations[id].status
        /\ GetOperationStatusOutcome(operations, a, now).operations[id].status
             = operations[id].status

\* C14: failOperation(id, message) on an operation in the table sets its
\* state to failed whatever its state was, stores message, or the default
\* text when message is empty, as its error and now as its completedAt, and
\* changes nothing else; with an id that is invalid or not in the table it
\* returns updated = false and changes nothing.
C14_FailForcesFailed ==
  \A a \in OpIdArgs, m \in MessageArgs :
    LET out == FailOperationOutcome(operations, a, m, now)
    IN  /\ a \in OpArgsNamingNone =>
             ~out.ret.updated /\ out.operations = operations
        /\ \A id \in DOMAIN operations :
             a \in OpArgsNaming(id) =>
               /\ out.ret.updated
               /\ out.operations =
                    [operations EXCEPT
                       ![id].status = "failed",
                       ![id].error = IF m = "" THEN DefaultFailure ELSE m,
                       ![id].completedAt = <<now>>]
\* failOperation has just failed an operation that had completed before.
C14_Witness ==
  /\ opRet.op = "fail" /\ opRet.ok
  /\ \E id \in DOMAIN operations :
       /\ operations[id].status = "failed"
       /\ operations[id].result # "null"
       /\ operations[id].error = DefaultFailure
       /\ operations[id].completedAt = <<now>>

\* C15: updateOperationProgress(id, p) with p > 0 moves a queued operation
\* to in_progress; with p = 100 it moves an operation that is in_progress,
\* or has just become so, to completed, with completedAt now and result
\* statusData.result, or {} when there is none; so one update with p = 100
\* completes a queued operation, and an update with p = 0 leaves it queued.
C15_ProgressTransitions ==
  \A id \in DOMAIN operations : \A a \in OpArgsNaming(id) :
    \A p \in Percents, d \in WellFormedData :
      LET before == operations[id]
          out == UpdateOperationProgressOutcome(operations, progressCallbacks,
                                                a, Progress(p), d, now)
          after == out.operations[id]
      IN  /\ out.ret.updated
          /\ (before.status = "queued" /\ p = Num(0)) => after.status = "queued"
          /\ (before.status = "queued" /\ p = Num(50)) => after.status = "in_progress"
          /\ (before.status \in {"queued", "in_progress"} /\ p = Num(100)) =>
               /\ after.status = "completed"
               /\ after.completedAt = <<now>>
               /\ after.result = IF d.result = "undefined" THEN "{}" ELSE d.result
          /\ after.status # "completed" =>
               after.result = before.result /\ after.completedAt = before.completedAt
\* An update with 100 has just completed an operation, with a result.
C15_Witness ==
  /\ opRet.op = "update" /\ opRet.ok
  /\ \E id \in DOMAIN operations :
       /\ operations[id].status = "completed"
       /\ operations[id].progress = Num(100)
       /\ operations[id].result = "R"
       /\ operations[id].completedAt = <<now>>

\* C16: getOperationStatus(id) changes a record exactly when the record is
\* in_progress and now - startedAt > timeout; it then sets the state to
\* failed, the error to the timeout message and completedAt to now, and
\* reports failed.  In every other case, a queued operation past its timeout
\* included, the table stays as it is.
C16_TimeoutOnRead ==
  \A a \in OpIdArgs :
    LET out == GetOperationStatusOutcome(operations, a, now)
    IN  /\ a \in OpArgsNamingNone => out.operations = operations
        /\ \A id \in DOMAIN operations :
             a \in OpArgsNaming(id) =>
               IF operations[id].status = "in_progress"
                    /\ now - operations[id].startedAt > operations[id].timeout
                 THEN /\ out.operations =
                           [operations EXCEPT ![id].status = "failed",
                                              ![id].error = TimeoutFailure,
                                              ![id].completedAt = <<now>>]
                      /\ out.ret.status = "failed"
                 ELSE /\ out.operations = operations
                      /\ out.ret.status = operations[id].status
\* A read has just failed an operation on its timeout.
C16_Witness ==
  /\ opRet.op = "status" /\ opRet.ok
  /\ \E id \in DOMAIN operations :
       /\ operations[id].status = "failed"
       /\ operations[id].error = TimeoutFailure
       /\ operations[id].completedAt = <<now>>
       /\ now - operations[id].startedAt > operations[id].timeout

\* The operationId arguments of startAsyncOperation that name a record of
\* the table: the id is looked up as it is given.
StartArgsTaken == {i \in StartIdArgs : ~InvalidString(i) /\ i.chars \in DOMAIN operations}

\* C17: startAsyncOperation fails and leaves the operation table as it is
\* when type is empty or not a string, when domains is not a non-empty list,
\* or when operationId names an existing record, whose state, progress,
\* timeout and timestamps stay as they were; a failed start changes neither
\* the operation table nor the observer table.
C17_RejectedStartChangesNothing ==
  /\ [](\A i \in StartIdArgs, ty \in TypeArgs, d \in DomainsArgs :
          LET out == StartAsyncOperationOutcome(operations, i, ty, d, now, nextOp)
          IN  (\/ ~ty.isString \/ ty.chars = <<>>
               \/ ~d.isArray \/ d.items = <<>>
               \/ i \in StartArgsTaken)
                => /\ out.ret.error # "none"
                   /\ out.ret.status # "queued"
                   /\ out.operations = operations)
  /\ [][opRet'.op = "start" /\ ~opRet'.ok
          => operations' = operations /\ progressCallbacks' = progressCallbacks]_vars
\* A start has just been rejected while the operation "o" is in progress
\* and observed.
C17_Witness ==
  /\ opRet.op = "start" /\ ~opRet.ok
  /\ Str(<<"o">>) \in StartArgsTaken
  /\ operations[<<"o">>].status = "in_progress"
  /\ operations[<<"o">>].progress = Num(50)
  /\ <<"o">> \in DOMAIN progressCallbacks

\* The observers registered for id, in registration order.
ObserversOf(id) ==
  IF id \in DOMAIN progressCallbacks THEN progressCallbacks[id] ELSE <<>>

\* C18: An updateOperationProgress(id, p) that succeeds has called each
\* observer registered for id once, in registration order, with the
\* operation's id, p and the state the record has after the update; an
\* update of an existing operation with a percentage succeeds whether or not
\* one of its observers throws, whatever it throws.
C18_UpdateNotifiesEveryObserver ==
  \A a \in OpIdArgs, p \in ProgressArgs, d \in WellFormedData :
    LET out == UpdateOperationProgressOutcome(operations, progressCallbacks,
                                              a, p, d, now)
        id == Trim(a.chars)
    IN  /\ out.ret.updated =>
              /\ id \in DOMAIN out.operations
              /\ out.operations[id].progress = p.n
              /\ Len(out.ret.notified) = Len(ObserversOf(id))
              /\ \A k \in 1..Len(ObserversOf(id)) :
                    /\ out.ret.notified[k].observer = ObserversOf(id)[k]
                    /\ out.ret.notified[k].note =
                         [operationId |-> id, progress |-> p.n,
                          status |-> out.operations[id].status]
        /\ (\E r \in DOMAIN operations : a \in OpArgsNaming(r))
              /\ p.isNumber /\ p.n \in Percents
              => out.ret.updated /\ ~out.ret.threw

\* The retention threshold of cleanupOldOperations(a) in milliseconds.
Threshold(a) ==
  IF a = AgeMinutesOmitted THEN DEFAULT_MAX_AGE_MINUTES * MS_PER_MINUTE
  ELSE a.minutes * MS_PER_MINUTE
\* The ids a step has removed from the operation table.
JustRemoved == DOMAIN operations \ DOMAIN operations'

\* C19: Whatever the threshold, cleanupOldOperations removes no operation
\* that is queued or in_progress, however old; an operation it removes is
\* completed or failed and its completedAt is more than the threshold ago.
\* A cleanup removes the observers of the operations it removes, and leaves
\* every other record and every other observer list as it was.
C19_CleanupRemovesOnlyOldTerminal ==
  /\ [](\A a \in OpMaxAgeArgs :
          LET removed == OperationsToRemove(operations, a, now)
          IN  \A id \in DOMAIN operations :
                /\ operations[id].status \in {"queued", "in_progress"}
                      => id \notin removed
                /\ id \in removed
                      => /\ operations[id].status \in {"completed", "failed"}
                         /\ operations[id].completedAt # Null
                         /\ now - operations[id].completedAt[1] > Threshold(a))
  /\ [][opRet'.op = "cleanup" /\ now' = now
          => /\ opRet'.removed = Cardinality(JustRemoved)
             /\ DOMAIN operations' \subseteq DOMAIN operations
             /\ \A id \in DOMAIN operations' : operations'[id] = operations[id]
             /\ DOMAIN progressCallbacks' = DOMAIN progressCallbacks \ JustRemoved
             /\ \A id \in DOMAIN progressCallbacks' :
                   progressCallbacks'[id] = progressCallbacks[id]]_vars
\* A cleanup has just removed the only operation, and no observer is left.
C19_Witness ==
  /\ opRet.op = "cleanup" /\ opRet.removed = 1
  /\ DOMAIN operations = {}
  /\ DOMAIN progressCallbacks = {}
  /\ now > DEFAULT_MAX_AGE_MINUTES * MS_PER_MINUTE

(***************************************************************************)
(* Properties of calculateNsec3Timeout.                                    *)
(***************************************************************************)
\* How many entries of the list are non-empty strings.
RECURSIVE WellFormedEntries(_)
WellFormedEntries(items) ==
  IF items = <<>> THEN 0
  ELSE WellFormedEntries(Tail(items))
         + (IF Head(items).isString /\ Len(Head(items).chars) > 0 THEN 1 ELSE 0)
\* min(base + perTarget * n, max)
ClampedTimeout(n) ==
  IF BASE_TIMEOUT_MS + DOMAIN_TIMEOUT_MS * n <= MAX_TIMEOUT_MS
    THEN BASE_TIMEOUT_MS + DOMAIN_TIMEOUT_MS * n
  ELSE MAX_TIMEOUT_MS
\* The least n at which the timeout is at its maximum.
ClampedFrom == (MAX_TIMEOUT_MS - BASE_TIMEOUT_MS) \div DOMAIN_TIMEOUT_MS

CarriedCode(raw) ==
  IF raw.shape = "error" THEN raw.code
  ELSE IF raw.shape = "object"
    THEN IF raw.code.t = "undefined" THEN raw.errno ELSE raw.code
  ELSE CodeUndefined
\* The message text of a raw error: the string itself, the message of an
\* Error, the message, msg or JSON text of another object; no text for what
\* is no string.
CarriedText(raw) ==
  LET m == IF raw.shape = "string" THEN raw.message
           ELSE IF raw.shape = "error" THEN raw.message
           ELSE IF raw.shape = "object"
             THEN IF raw.message.t # "undefined" THEN raw.message
                  ELSE IF raw.msg.t # "undefined" THEN raw.msg
                  ELSE raw.json
           ELSE MsgUndefined
  IN  IF m.t = "string" THEN m.chars ELSE <<>>
\* The kind of the first entry of the pattern table that the lower-cased
\* text contains, UNKNOWN when there is none.
RECURSIVE FirstPatternKind(_, _)
FirstPatternKind(text, i) ==
  IF i > Len(ERROR_PATTERN_MAP) THEN "UNKNOWN"
  ELSE IF Includes([j \in 1..Len(text) |-> LowerChar(text[j])],
                   ERROR_PATTERN_MAP[i].pattern)
    THEN ERROR_PATTERN_MAP[i].errorType
  ELSE FirstPatternKind(text, i + 1)
\* The kind the classification order gives a raw error.
KindByOrder(raw) ==
  IF CarriedCode(raw).t = "string" /\ CarriedCode(raw).key \in ERROR_TYPES
    THEN CarriedCode(raw).key
  ELSE FirstPatternKind(CarriedText(raw), 1)
\* A mapWhmError call has been made on whmError.
Classified == mapped.made \/ mapped.threw

\* C21: For a raw error of any shape mapWhmError returns a mapped error and
\* does not throw, and the kind it returns is one of ERROR_TYPES.
C21_ClassificationNeverFails ==
  Classified => /\ ~mapped.threw
                /\ mapped.type \in ERROR_TYPES

\* C22: mapWhmError gives the kind named by the code the raw error carries
\* when that code names a kind, whatever the message; otherwise the kind of
\* the first entry, in table order, of the pattern table contained in the
\* lower-cased message; otherwise UNKNOWN.
C22_ClassificationOrder ==
  Classified => /\ mapped.made
                /\ mapped.type = KindByOrder(whmError)

\* The kinds that stand for permanent preconditions and for transient
\* failures.
PermanentKinds ==
  {"ENOENT", "EEXIST", "EPERM", "FORBIDDEN", "UNAUTHORIZED", "INVALID_INPUT",
   "VALIDATION_ERROR", "QUOTA_EXCEEDED"}
TransientKinds ==
  {"EBUSY", "ETIMEDOUT", "ECONNREFUSED", "RATE_LIMITED", "INTERNAL_ERROR",
   "SERVICE_UNAVAILABLE"}

\* C23: Every kind has a retry policy; shouldRetry is false for the
\* permanent kinds and true for the transient ones; isRecoverable of a
\* mapped error is shouldRetry and maxRetries > 0, which for the mapped
\* error of every kind is the kind's shouldRetry.
C23_RecoverableIsShouldRetry ==
  /\ \A k \in ERROR_TYPES :
       LET m == CreateMappedError(k, Msg(<<>>), now)
       IN  /\ m.type = k
           /\ m.retry.shouldRetry.t = "boolean"
           /\ m.retry.maxRetries.t = "number"
           /\ k \in PermanentKinds => ~m.retry.shouldRetry.b
           /\ k \in TransientKinds => m.retry.shouldRetry.b
           /\ IsRecoverable(m) = (m.retry.shouldRetry.b /\ m.retry.maxRetries.n > 0)
           /\ IsRecoverable(m) = m.retry.shouldRetry.b
  /\ mapped.made /\ mapped.type \in ERROR_TYPES =>
       /\ mapped.retry = CreateMappedError(mapped.type, Msg(<<>>), now).retry
       /\ IsRecoverable(mapped) = mapped.retry.shouldRetry.b
       /\ retryRet.op = "isRecoverable" =>
            retryRet.recoverable = mapped.retry.shouldRetry.b
\* "Connection Refused" has been classified as ECONNREFUSED and found
\* recoverable.
C23_Witness ==
  /\ mapped.made /\ mapped.type = "ECONNREFUSED"
  /\ whmError.shape = "string"
  /\ retryRet.op = "isRecoverable" /\ retryRet.recoverable

\* 2^min(attempt, 3)
GrowthFactor(attempt) == IF attempt < MAX_DOUBLINGS THEN Pow2(attempt) ELSE Pow2(MAX_DOUBLINGS)

\* C24: For every mapped error the classifier returns, retryable or not,
\* and every attempt, getRetryBackoff is the backoffMs the mapped error
\* carries times 2^min(attempt, 3).
C24_BackoffUsesCarriedBase ==
  mapped.made =>
    \A a \in 0..MaxAttempt :
      GetRetryBackoff(mapped, a) = mapped.retry.backoffMs.n * GrowthFactor(a)

\* C25: For every mapped error, with base the backoff of attempt 0,
\* getRetryBackoff is base, 2 base, 4 base and 8 base for the attempts 0 to
\* 3, strictly increasing, and 8 base for every later attempt.
C25_BackoffDoublesThenStays ==
  mapped.made =>
    LET base == GetRetryBackoff(mapped, 0)
    IN  /\ base > 0
        /\ \A a \in 0..MAX_DOUBLINGS : GetRetryBackoff(mapped, a) = Pow2(a) * base
        /\ \A a \in 1..MAX_DOUBLINGS :
             GetRetryBackoff(mapped, a - 1) < GetRetryBackoff(mapped, a)
        /\ \A a \in MAX_DOUBLINGS..MaxAttempt :
             GetRetryBackoff(mapped, a) = Pow2(MAX_DOUBLINGS) * base
        /\ retryRet.op = "getRetryBackoff" =>
             retryRet.backoff = GrowthFactor(retryRet.attempt) * base
\* The backoff of an attempt after the third has been asked for an error
\* that carries a base backoff: it is 8 times the base.
C25_Witness ==
  /\ mapped.made /\ mapped.retry.backoffMs.n > 0
  /\ retryRet.op = "getRetryBackoff"
  /\ retryRet.attempt > MAX_DOUBLINGS
  /\ retryRet.backoff = Pow2(MAX_DOUBLINGS) * mapped.retry.backoffMs.n

(***************************************************************************)
(* Properties of the sweep.                                                *)
(***************************************************************************)
\* The entries of the table that another entry has replaced or that are
\* gone after a step.
EntriesRemoved ==
  {k \in DOMAIN locks : k \notin DOMAIN locks' \/ locks'[k] # locks[k]}

\* The sweep at this instant would remove exactly the entries with
\* acquiredAt + timeout < now, none of which acquireLock would report busy.
SweepTakesExpired ==
  /\ StaleLocks(locks, now) =
       {k \in DOMAIN locks :
          /\ ~locks[k].timeout.nan
          /\ locks[k].timestamp + locks[k].timeout.v < now}
  /\ \A r \in ResourceArgs, t \in TimeoutArgs :
       LET out == AcquireLockOutcome(locks, r, t, now, nextLockId)
       IN  out.ret.error = "busy" => out.ret.key \notin StaleLocks(locks, now)
\* A sweep step removes what it found and nothing else.
SweepStep ==
  lockRet'.op = "staleCheck" /\ now' = now =>
    /\ DOMAIN locks' = DOMAIN locks \ lockRet'.removed
    /\ EntriesRemoved = lockRet'.removed
\* Entry k leaves the table in a releaseLock call for it, in a sweep that
\* finds acquiredAt + timeout < now, or in an acquireLock or isLocked call
\* for it after its timeout has elapsed.
ReleasedSweptOrReclaimed(k) ==
  \/ lockRet'.op = "releaseLock" /\ lockRet'.key = k
  \/ /\ lockRet'.op = "staleCheck"
     /\ ~locks[k].timeout.nan
     /\ locks[k].timestamp + locks[k].timeout.v < now
  \/ /\ lockRet'.op \in {"acquireLock", "isLocked"}
     /\ lockRet'.key = k
     /\ TimeoutElapsed(locks[k], now)

\* C30 as stated: the sweep removes exactly the entries with acquiredAt +
\* timeout < now, none of which acquireLock would report busy; and an entry
\* leaves the table only by releaseLock, by the sweep or by the reclamation
\* in acquireLock or isLocked after it has expired.
C30_Original ==
  /\ []SweepTakesExpired
  /\ [][SweepStep /\ \A k \in EntriesRemoved : ReleasedSweptOrReclaimed(k)]_vars

\* C30: The sweep removes exactly the entries with acquiredAt + timeout <
\* now, none of which acquireLock would report busy; and an entry leaves
\* the table only by releaseLock, by the sweep, by the reclamation in
\* acquireLock or isLocked after it has expired, or by clearAllLocks, which
\* empties the table.
C30_SweepRemovesOnlyExpired ==
  /\ []SweepTakesExpired
  /\ [][/\ SweepStep
        /\ lockRet'.op = "clearAllLocks" => locks' = << >>
        /\ \A k \in EntriesRemoved :
             ReleasedSweptOrReclaimed(k) \/ lockRet'.op = "clearAllLocks"]_vars
\* A sweep has just removed an entry and left another one, whose timeout
\* has not elapsed, in the table.
C30_Witness ==
  /\ lockRet.op = "staleCheck"
  /\ lockRet.removed # {}
  /\ \E k \in DOMAIN locks : ~TimeoutElapsed(locks[k], now)

(***************************************************************************)
(* Properties of the lock table and its readers.                           *)
(***************************************************************************)
\* C31: The timeout stored in every entry of the lock table is positive and
\* at most 600000 ms, so that no entry is live more than 600000 ms after
\* its acquisition.
C31_StoredTimeoutBounded ==
  \A k \in DOMAIN locks :
    /\ ~locks[k].timeout.nan
    /\ 0 < locks[k].timeout.v
    /\ locks[k].timeout.v <= MAX_LOCK_TIMEOUT

\* The resources for which isLocked reports locked = true at this instant.
ReportedLocked ==
  {Trim(r.chars) : r \in {x \in ResourceArgs : IsLockedOutcome(locks, x, now).ret.ok}}

\* C32: At every instant and for every resource argument, isLocked reports
\* locked = true exactly when an acquireLock with a timeout it accepts
\* would fail as busy; and isLocked leaves the table as it is or deletes
\* the entry of its own resource, whose timeout has elapsed.
C32_IsLockedAgreesWithAcquire ==
  \A r \in ResourceArgs :
    LET out == IsLockedOutcome(locks, r, now)
    IN  /\ \A t \in TimeoutArgs :
             ~InvalidTimeout(t) =>
               (out.ret.ok <=>
                  AcquireLockOutcome(locks, r, t, now, nextLockId).ret.error = "busy")
        /\ \/ out.locks = locks
           \/ /\ r.isString /\ Trim(r.chars) \in DOMAIN locks
              /\ TimeoutElapsed(locks[Trim(r.chars)], now)
              /\ out.locks = [k \in DOMAIN locks \ {Trim(r.chars)} |-> locks[k]]
              /\ ~out.ret.ok
\* isLocked has just deleted an entry at the instant its timeout ended.
C32_Witness ==
  /\ lockRet.op = "isLocked" /\ ~lockRet.ok
  /\ lockRet.removed # {}
  /\ now = 1

\* The entries of the table whose timeout has elapsed.
ExpiredEntries == {k \in DOMAIN locks : TimeoutElapsed(locks[k], now)}

C34_LiveLockStaysUntilHolderReleases ==
  \A c \in Callers :
    pc[c] = "work" /\ WithinWindow(lease[c], now) =>
      /\ lease[c].key \in DOMAIN locks
      /\ locks[lease[c].key].lockId = lease[c].lockId

(***************************************************************************)
(* Properties of the operation tracker's addressing, updates and           *)
(* observers.                                                              *)
(***************************************************************************)
\* C35: Every record of the operation table can be addressed by the id it
\* was started under: getOperationStatus, updateOperationProgress and
\* failOperation called with that id act on the record and do not report
\* it as not found.
C35_AcceptedIdStaysAddressable ==
  \A id \in DOMAIN operations :
    LET status == GetOperationStatusOutcome(operations, Str(id), now).ret
        update == UpdateOperationProgressOutcome(operations, progressCallbacks,
                    Str(id), Progress(Num(50)), DataOmitted, now).ret
        fail == FailOperationOutcome(operations, Str(id), "boom", now).ret
    IN  /\ status.error = "none" /\ status.id = id
        /\ update.updated /\ update.id = id
        /\ fail.updated /\ fail.id = id

\* C36: An updateOperationProgress call that does not return updated = true
\* leaves every record of the operation table as it was, its progress
\* included, and calls no observer.
C36_FailedUpdateChangesNothing ==
  \A a \in OpIdArgs, p \in ProgressArgs, d \in StatusDataArgs :
    LET out == UpdateOperationProgressOutcome(operations, progressCallbacks,
                                              a, p, d, now)
    IN  ~out.ret.updated =>
          /\ out.operations = operations
          /\ out.ret.notified = <<>>

\* C37 as stated: an operation in state completed has completedAt -
\* startedAt <= timeout.
C37_Original ==
  \A id \in DOMAIN operations :
    operations[id].status = "completed" =>
      operations[id].completedAt[1] - operations[id].startedAt <= operations[id].timeout

\* C37: updateOperationProgress does not look at the timeout: an update
\* with 100 completes an operation that is in_progress at whatever instant
\* it arrives, with completedAt that instant.  A getOperationStatus call
\* that finds the operation in_progress after its timeout has elapsed
\* fails it, and no update completes a failed operation.
C37_CompletesUnlessReadFailedIt ==
  \A id \in DOMAIN operations : \A a \in OpArgsNaming(id) :
    /\ operations[id].status = "in_progress" =>
         \A d \in WellFormedData :
           LET after == UpdateOperationProgressOutcome(operations, progressCallbacks,
                          a, Progress(Num(MAX_PROGRESS)), d, now).operations[id]
           IN  after.status = "completed" /\ after.completedAt = <<now>>
    /\ (operations[id].status = "in_progress"
          /\ now - operations[id].startedAt > operations[id].timeout) =>
         GetOperationStatusOutcome(operations, a, now).operations[id].status = "failed"
    /\ operations[id].status = "failed" =>
         \A p \in ProgressArgs, d \in StatusDataArgs :
           UpdateOperationProgressOutcome(operations, progressCallbacks, a, p, d, now)
             .operations[id].status = "failed"
\* An update has just completed an operation after its timeout had elapsed.
C37_Witness ==
  /\ opRet.op = "update" /\ opRet.ok
  /\ \E id \in DOMAIN operations :
       /\ operations[id].status = "completed"
       /\ operations[id].completedAt = <<now>>
       /\ now - operations[id].startedAt > operations[id].timeout

\* C38: Observers are called only by an updateOperationProgress call that
\* succeeds, and only those registered under the id of that call: the last
\* call has notified somebody only if it is a successful update, and then
\* observers registered under the id it reports.
C38_OnlySuccessfulUpdatesNotify ==
  opRet.notified # <<>> =>
    /\ opRet.op = "update"
    /\ opRet.ok
    /\ \A i \in 1..Len(opRet.notified) :
         LET id == opRet.notified[i].note.operationId
         IN  /\ id \in DOMAIN progressCallbacks
             /\ \E j \in 1..Len(progressCallbacks[id]) :
                  progressCallbacks[id][j] = opRet.notified[i].observer

(***************************************************************************)
(* Properties of the documented retry loop.                                *)
(***************************************************************************)
ApiCallDone == apiCall.pc \in {"returned", "thrown"}
\* What handleApiCall has done so far stays within the policy.
WithinPolicy ==
  /\ Len(apiCall.waits) <= apiCall.reattempts + 1
  /\ apiCall.reattempts <= Len(apiCall.waits)
  /\ ~IsRecoverable(mapped) => apiCall.reattempts = 0 /\ apiCall.waits = <<>>
  /\ IsRecoverable(mapped) =>
       /\ apiCall.reattempts <= mapped.retry.maxRetries.n
       /\ mapped.retry.backoffMs.t = "number"
       /\ \A i \in DOMAIN apiCall.waits :
            apiCall.waits[i] <= 8 * mapped.retry.backoffMs.n

\* C39: handleApiCall always ends, by returning or by throwing: it executes
\* the operation again at most maxRetries times, not at all when the error
\* is not recoverable or cannot be classified, and each wait is at most 8
\* times the backoffMs the classified error carries.
C39_RetryLoopTerminates == []WithinPolicy /\ <>ApiCallDone
\* Every attempt has failed and the loop has used all its retries.
C39_Witness ==
  /\ apiCall.pc = "returned" /\ apiCall.status = "error"
  /\ IsRecoverable(mapped)
  /\ apiCall.reattempts = mapped.retry.maxRetries.n
  /\ Len(apiCall.waits) = apiCall.reattempts
  /\ apiCall.reattempts >= 3

(***************************************************************************)
(* Properties of the layer as a whole.                                     *)
(***************************************************************************)
\* C26: Every error of an entry point of the lock manager, the transaction
\* log and the operation tracker is returned to the caller as a result and
\* not raised: no call ends by throwing.
C26_ErrorsAreReturned ==
  /\ ~txRet.threw
  /\ ~opRet.threw
  /\ ~mapped.threw

(***************************************************************************)
(* Properties of the attributes of an operation.                           *)
(***************************************************************************)
\* C27: The result of an operation is set only on completion: an operation
\* whose result is not null is in state completed.
C27_ResultOnlyWhenCompleted ==
  \A id \in DOMAIN operations :
    operations[id].result # "null" => operations[id].status = "completed"

\* C28: The error of an operation is set only on failure: an operation has
\* an error that is not null exactly when its state is failed; and no
\* updateOperationProgress call replaces a result that is not null.
C28_ErrorIffFailed ==
  /\ \A id \in DOMAIN operations :
       operations[id].error # "null" <=> operations[id].status = "failed"
  /\ \A a \in OpIdArgs, p \in ProgressArgs, d \in StatusDataArgs :
       LET out == UpdateOperationProgressOutcome(operations, progressCallbacks,
                                                 a, p, d, now)
       IN  /\ DOMAIN out.operations = DOMAIN operations
           /\ \A id \in DOMAIN operations :
                /\ operations[id].result # "null" =>
                     out.operations[id].result = operations[id].result
                /\ out.operations[id].error = operations[id].error
\* An update with 50 has just been accepted for an operation that had
\* completed before: it is still completed and has its result and no error.
C28_Witness ==
  /\ opRet.op = "update" /\ opRet.ok
  /\ \E id \in DOMAIN operations :
       /\ operations[id].status = "completed"
       /\ operations[id].progress = Num(50)
       /\ operations[id].result # "null"
       /\ operations[id].error = "null"

\* C29: No operation is in state cancelled, and getOperationStats reports
\* cancelled = 0; every operation is queued, in_progress, completed or
\* failed, and the counts of these states add up to the total.
C29_CancelledUnreachable ==
  LET stats == GetOperationStats(operations)
  IN  /\ \A id \in DOMAIN operations :
           operations[id].status \in {"queued", "in_progress", "completed", "failed"}
      /\ stats.cancelled = 0
      /\ stats.total = stats.queued + stats.inProgress + stats.completed + stats.failed
\* Operations have been started, failed and removed, and the one in the
\* table has completed.
C29_Witness ==
  /\ nextOp > 1
  /\ GetOperationStats(operations).completed = 1
  /\ GetOperationStats(operations).cancelled = 0

Spec == LockSpec

====
